---- MODULE Spec2Model ----
(***************************************************************************)
(* Model of the retrieval engine and prompt assembly of terminalchat:     *)
(*   src/src/rag/manager.py           RAGManager (load, retrieve, stats)   *)
(*   src/src/rag/embeddings_cache.py  EmbeddingsCache                      *)
(*   src/src/utils/atomic_writes.py   atomic_write_pickle                  *)
(*   src/src/rag/embeddings.py        EmbeddingModel, cosine_similarity,   *)
(*                                    chunk_text, _find_break_point        *)
(*   src/src/models/context.py        ContextManager                       *)
(*   src/src/models/prompt_formatter.py  prepare_prompt                    *)
(*   src/src/app/session.py           ChatSession                          *)
(*   src/src/app/chat_loop.py         ChatLoop.handle_message              *)
(*                                                                         *)
(* The state is the memory directory on disk (documents, cache file,      *)
(* temporary file), one RAGManager instance of the running process,       *)
(* history variables recording what the last load() call did, and the     *)
(* calls of retrieve(), prepare_prompt() and chunk_text() being followed. *)
(*                                                                         *)
(*   Spec           load() against a changing directory                    *)
(*   RaceSpec       the same, the directory also changing during load()    *)
(*   DirSpec        load() over a directory with entries it has to skip    *)
(*   RetrieveSpec   retrieve() over any index                              *)
(*   PromptSpec     ContextManager and prepare_prompt(), step by step      *)
(*   PromptLiveSpec the same, a call in progress being carried on          *)
(*   ChunkSpec      chunk_text(), one loop pass per step                   *)
(*   TurnSpec       chat turns of ChatLoop over a ChatSession              *)
(***************************************************************************)
EXTENDS Integers, Sequences, FiniteSets, TLC

VARIABLES
    clock,            \* file-system clock: the mtime given to the next write
    dirExists,        \* os.path.exists(memory_dir)
    files,            \* documents of the memory directory, by name
    cacheFile,        \* memory_dir/.embeddings_cache.pkl
    tmpFile,          \* memory_dir/.embeddings_cache.tmp
    model,            \* RAGManager.embedding_model.model ("None" or "loaded")
    cache,            \* RAGManager.cache.cache (EmbeddingsCache.cache)
    chunks,           \* RAGManager.chunks
    embeddings,       \* RAGManager.embeddings
    chunk_metadata,   \* RAGManager.chunk_metadata
    loaded,           \* RAGManager._loaded
    lastResult,       \* history: how the load() call just made ended
    lastLoad,         \* history: what the load() call just made was given
    everInitFailed,   \* history: embedding_model.load() failed on this instance
    lastSet,          \* history: per document, the arguments of the last cache.set
    faults,           \* number of failures injected so far
    lastRetrieve,     \* history: the retrieve() call just made and what it returned
    messages,         \* ContextManager.messages
    pp,               \* the prepare_prompt() call in progress: its locals and result
    ct,               \* the chunk_text() call in progress: its arguments and locals
    turn              \* the chat turn ChatLoop.handle_message is in

vars == <<clock, dirExists, files, cacheFile, tmpFile, model, cache, chunks,
          embeddings, chunk_metadata, loaded, lastResult, lastLoad,
          everInitFailed, lastSet, faults, lastRetrieve, messages, pp,
          ct, turn>>

diskVars == <<clock, dirExists, files, cacheFile, tmpFile>>
instVars == <<model, cache, chunks, embeddings, chunk_metadata, loaded>>
histVars == <<lastResult, lastLoad, everInitFailed>>
\* the state of the calls followed outside load()
callVars == <<lastRetrieve, messages, pp, ct, turn>>

----------------------------------------------------------------------------
(* Bounds of the model *)

\* the file-system clock stops here: at most MaxMtime document writes
MaxMtime == 2

\* at most MaxFaults failures (a failing collaborator or write, a crash, a
\* damaged cache file) are injected in one behaviour
MaxFaults == 1

\* the documents that may appear in the memory directory
DocNames == {"a.md", "b.md"}

\* document contents.  "" is blank, "\\xff" is not valid UTF-8.
Texts == {"", "P", "Q", "\\xff"}

\* queries, budgets and candidate counts tried against retrieve()
Queries == {"p?", "q?"}
Budgets == {0, 3, 5, 100}
TopKs == {0, 1, 2, 10}

\* an index handed to retrieve() has at most MaxIndex chunks, each one of
\* IndexChunks with one of IndexVecs as its embedding row
MaxIndex == 3
IndexChunks == {"P1", "Q1", "Q2"}
IndexVecs == {<<10, 0>>, <<0, 10>>}

\* a conversation has at most MaxMessages user and assistant messages
MaxMessages == 3
Contents == {"hi", "long"}
\* Optional[str] values; "None" stands for Python's None
SystemPrompts == {"None", "", "SYS"}
RagContexts == {"None", "", " ", "CTX"}
MaxLengths == {0, 6, 8, 100}

\* chunk_text is tried on every text of at most MaxTextLen characters of
\* Chars, with max_chars in 1..MaxChars and overlap_chars in 0..MaxOverlap;
\* a call is followed for MaxPasses passes of its loop
MaxTextLen == 4
MaxChars == 3
MaxOverlap == 3
MaxPasses == 6
Chars == {"a", ".", "!", " ", "\n"}

----------------------------------------------------------------------------
(* Values *)

None == [kind |-> "None"]

EmptyDict == [n \in {} |-> None]

\* dict with d[k] = v
DictPut(d, k, v) == [n \in (DOMAIN d) \cup {k} |-> IF n = k THEN v ELSE d[n]]

RECURSIVE Flatten(_)
Flatten(ss) == IF ss = <<>> THEN <<>> ELSE Head(ss) \o Flatten(Tail(ss))

\* s[a:b] of Python, 0-based, a <= b
Slice(s, a, b) == SubSeq(s, a + 1, IF b > Len(s) THEN Len(s) ELSE b)

\* all orders in which os.listdir may return the names of S
Orders(S) ==
    {o \in [1..Cardinality(S) -> S] : \A i, j \in 1..Cardinality(S) : i # j => o[i] # o[j]}

----------------------------------------------------------------------------
(* Collaborators: the document chunker, the embedding model, numpy *)

\* chunk_text(text) as load() calls it: the ordered chunks of a document.
\* A document is identified with its text; a blank text has no chunks.
ChunksOfText(text) ==
    CASE text = "P" -> <<"P1">>
      [] text = "Q" -> <<"Q1", "Q2">>
      [] OTHER -> <<>>

\* open(filepath, encoding='utf-8').read() raises for an undecodable file
Readable(text) == text # "\\xff"

\* the vector the sentence-transformers model gives a text (float32 values)
EmbedVec(text) ==
    CASE text = "P1" -> <<10, 0>>
      [] text = "Q1" -> <<8, 6>>
      [] text = "Q2" -> <<0, 10>>
      [] text = "p?" -> <<6, 2>>
      [] text = "q?" -> <<2, 6>>
      [] OTHER -> <<2, 2>>

\* Numbers: an integer n stands for the real n * 2^-k.  A Python float
\* (double) holds every integer; a float32 holds the even ones only.
ToFloat32(x) == x - (x % 2)

\* np.array(rows, dtype=np.float32)
np_array_float32(rows) ==
    [kind |-> "ndarray", dtype |-> "float32",
     rows |-> [i \in 1..Len(rows) |-> [j \in 1..Len(rows[i]) |-> ToFloat32(rows[i][j])]]]

\* ndarray.tolist(): float32 -> Python float, exact
tolist(arr) == arr.rows

\* arr[a:b]
ArraySlice(arr, a, b) == [arr EXCEPT !.rows = Slice(arr.rows, a, b)]

\* np.vstack(list of arrays)
vstack(arrs) ==
    [kind |-> "ndarray",
     dtype |-> IF \E i \in 1..Len(arrs) : arrs[i].dtype = "float64" THEN "float64" ELSE "float32",
     rows |-> Flatten([i \in 1..Len(arrs) |-> arrs[i].rows])]

\* EmbeddingModel.encode(texts): one float32 row per text, in order
encode(texts) ==
    [kind |-> "ndarray", dtype |-> "float32",
     rows |-> [i \in 1..Len(texts) |-> EmbedVec(texts[i])]]

\* EmbeddingModel.encode_single(text)
encode_single(text) == encode(<<text>>).rows[1]

----------------------------------------------------------------------------
(* EmbeddingsCache *)

\* os.path.getmtime(filepath) succeeds
MtimeReadable(fs, filename) == fs[filename].kind = "file"

\* get() without the comparison of the stored timestamp with the mtime
get_IgnoresTimestamp(c, fs, filename) ==
    IF filename \notin DOMAIN c THEN None
    ELSE IF ~MtimeReadable(fs, filename) THEN None
    ELSE [kind |-> "hit",
          chunks |-> c[filename].chunks,
          embeddings |-> np_array_float32(c[filename].embeddings)]

\* EmbeddingsCache.get(filename, filepath) on cache dict c
get(c, fs, filename) ==
    IF filename \notin DOMAIN c THEN None
    ELSE IF ~MtimeReadable(fs, filename) THEN None
    ELSE IF c[filename].timestamp # fs[filename].mtime THEN None
    ELSE IF ~({"chunks", "embeddings"} \subseteq DOMAIN c[filename]) THEN None
    ELSE [kind |-> "hit",
          chunks |-> c[filename].chunks,
          embeddings |-> np_array_float32(c[filename].embeddings)]

\* EmbeddingsCache.set(filename, filepath, chunks, embeddings): the new dict
set(c, fs, filename, file_chunks, file_embeddings) ==
    IF ~MtimeReadable(fs, filename) THEN c
    ELSE DictPut(c, filename,
                 [timestamp |-> fs[filename].mtime,
                  chunks |-> file_chunks,
                  embeddings |-> tolist(file_embeddings)])

\* a clean() that removes nothing
clean_KeepsAll(c, existing_files) == c

\* EmbeddingsCache.clean(existing_files): the new dict
clean(c, existing_files) ==
    LET existing_set == {existing_files[i] : i \in 1..Len(existing_files)}
    IN  [n \in (DOMAIN c) \cap existing_set |-> c[n]]

\* pickle.dump(data, f) into a file that is then closed
pickle_dump(data) == [kind |-> "pickle", obj |-> data]

\* os.path.exists / Path.exists of a file of the directory
PathExists(file) == file.kind # "absent"

\* load() with the isinstance check inverted: a dict payload is reset
cache_load_ResetsMapping(c, cfile) ==
    CASE ~PathExists(cfile)        -> [cache |-> EmptyDict, result |-> "True"]
      [] cfile.kind = "pickle"     -> [cache |-> EmptyDict, result |-> "True"]
      [] cfile.kind = "notdict"    -> [cache |-> EmptyDict, result |-> "True"]
      [] cfile.kind = "garbage"    -> [cache |-> c, result |-> "CacheError"]
      [] cfile.kind = "truncated"  -> [cache |-> EmptyDict, result |-> "True"]
      [] OTHER                     -> [cache |-> EmptyDict, result |-> "False"]

\* load() that treats EOFError as it treats UnpicklingError
cache_load_TruncatedRaises(c, cfile) ==
    CASE ~PathExists(cfile)        -> [cache |-> EmptyDict, result |-> "True"]
      [] cfile.kind = "pickle"     -> [cache |-> cfile.obj, result |-> "True"]
      [] cfile.kind = "notdict"    -> [cache |-> EmptyDict, result |-> "True"]
      [] cfile.kind = "garbage"    -> [cache |-> c, result |-> "CacheError"]
      [] cfile.kind = "truncated"  -> [cache |-> c, result |-> "CacheError"]
      [] OTHER                     -> [cache |-> EmptyDict, result |-> "False"]

\* EmbeddingsCache.load(memory_dir): the new dict and how the call ends
cache_load(c, cfile) ==
    CASE ~PathExists(cfile)        -> [cache |-> EmptyDict, result |-> "True"]
      [] cfile.kind = "pickle"     -> [cache |-> cfile.obj, result |-> "True"]
      [] cfile.kind = "notdict"    -> [cache |-> EmptyDict, result |-> "True"]
      [] cfile.kind = "garbage"    -> [cache |-> c, result |-> "CacheError"]
      [] cfile.kind = "truncated"  -> [cache |-> EmptyDict, result |-> "True"]
      [] OTHER                     -> [cache |-> EmptyDict, result |-> "False"]

\* what can go wrong while the cache is written
SaveFaults ==
    {"open_PermissionError", "dump_OSError", "dump_MemoryError",
     "unlink_PermissionError", "rename_OSError",
     "crash_in_dump", "crash_after_dump", "crash_after_unlink"}

Absent == [kind |-> "absent"]

\* atomic_write_pickle(data, filepath): destination and temporary file
\* afterwards, and the exception raised ("ok" if none, "crash" if the
\* process died inside the call)
atomic_write_pickle(data, dest, tmp, fault) ==
    CASE fault = "open_PermissionError" ->
            [dest |-> dest, tmp |-> Absent, outcome |-> "PermissionError"]
      [] fault = "dump_OSError" ->
            [dest |-> dest, tmp |-> Absent, outcome |-> "OSError"]
      [] fault = "dump_MemoryError" ->
            [dest |-> dest, tmp |-> Absent, outcome |-> "Exception"]
      [] fault = "crash_in_dump" ->
            [dest |-> dest, tmp |-> [kind |-> "truncated"], outcome |-> "crash"]
      [] fault = "crash_after_dump" ->
            [dest |-> dest, tmp |-> pickle_dump(data), outcome |-> "crash"]
      [] fault = "unlink_PermissionError" /\ PathExists(dest) ->
            [dest |-> dest, tmp |-> Absent, outcome |-> "PermissionError"]
      [] fault = "crash_after_unlink" ->
            [dest |-> Absent, tmp |-> pickle_dump(data), outcome |-> "crash"]
      [] fault = "rename_OSError" ->
            [dest |-> Absent, tmp |-> Absent, outcome |-> "OSError"]
      [] OTHER ->
            [dest |-> pickle_dump(data), tmp |-> Absent, outcome |-> "ok"]

\* EmbeddingsCache.save(memory_dir)
cache_save(c, cfile, tmp, fault) ==
    LET w == atomic_write_pickle(c, cfile, tmp, fault)
    IN  [cacheFile |-> w.dest, tmpFile |-> w.tmp,
         result |-> CASE w.outcome = "ok" -> "True"
                      [] w.outcome = "crash" -> "crash"
                      [] w.outcome \in {"PermissionError", "OSError"} -> "CacheError"
                      [] OTHER -> "False"]

----------------------------------------------------------------------------
(* RAGManager.load *)

SUPPORTED_EXTENSIONS == {".md", ".txt"}
EXCLUDED_FILES == {"README.md", "readme.md", "README.txt", "readme.txt"}

\* os.path.splitext(filename)[1].lower()
splitext_lower(filename) ==
    CASE filename \in {"a.md", "b.md", "README.md", "readme.md"} -> ".md"
      [] filename \in {"README.txt", "readme.txt"} -> ".txt"
      [] OTHER -> ".pkl"

\* os.path.isfile(filepath)
isfile(fs, filename) == fs[filename].kind = "file"

\* os.listdir(memory_dir): the names present, in any order
Listings(fs) == Orders({n \in DOMAIN fs : fs[n].kind # "absent"})

\* one metadata dict per chunk of a file
MetadataFor(filename, file_chunks) ==
    [i \in 1..Len(file_chunks) |-> [filename |-> filename, filepath |-> "memory/" \o filename]]

\* the local lists of load() before the directory scan
ScanStart ==
    [all_chunks |-> <<>>, all_embeddings_list |-> <<>>, all_metadata |-> <<>>,
     files_to_embed |-> <<>>, chunks_to_embed |-> <<>>, existing_files |-> <<>>]

\* the body of the scan loop without the check of the exclude-list
scan_file_KeepsExcluded(c, fs, filename, acc) ==
    IF ~isfile(fs, filename) THEN acc
    ELSE IF splitext_lower(filename) \notin SUPPORTED_EXTENSIONS THEN acc
    ELSE
      LET acc1 == [acc EXCEPT !.existing_files = Append(@, filename)]
          file_chunks == ChunksOfText(fs[filename].text)
      IN  IF file_chunks = <<>> THEN acc1
          ELSE [acc1 EXCEPT
                  !.all_chunks = @ \o file_chunks,
                  !.chunks_to_embed = @ \o file_chunks,
                  !.files_to_embed =
                      Append(@, [filename |-> filename,
                                 start_idx |-> Len(acc.all_chunks),
                                 num_chunks |-> Len(file_chunks)]),
                  !.all_metadata = @ \o MetadataFor(filename, file_chunks)]

\* the body of "for filename in os.listdir(self.memory_dir)" for one name
scan_file(c, fs, filename, acc) ==
    IF ~isfile(fs, filename) THEN acc
    ELSE IF filename \in EXCLUDED_FILES THEN acc
    ELSE IF splitext_lower(filename) \notin SUPPORTED_EXTENSIONS THEN acc
    ELSE
      LET acc1 == [acc EXCEPT !.existing_files = Append(@, filename)]
          cached_result == get(c, fs, filename)
      IN  IF cached_result # None
          THEN [acc1 EXCEPT
                  !.all_chunks = @ \o cached_result.chunks,
                  !.all_embeddings_list = Append(@, cached_result.embeddings),
                  !.all_metadata = @ \o MetadataFor(filename, cached_result.chunks)]
          ELSE IF ~Readable(fs[filename].text) THEN acc1
          ELSE LET file_chunks == ChunksOfText(fs[filename].text)
               IN  IF file_chunks = <<>> THEN acc1
                   ELSE [acc1 EXCEPT
                           !.all_chunks = @ \o file_chunks,
                           !.chunks_to_embed = @ \o file_chunks,
                           !.files_to_embed =
                               Append(@, [filename |-> filename,
                                          start_idx |-> Len(acc.all_chunks),
                                          num_chunks |-> Len(file_chunks)]),
                           !.all_metadata = @ \o MetadataFor(filename, file_chunks)]

\* the whole directory scan, in listing order
RECURSIVE scan(_, _, _, _)
scan(c, fs, order, acc) ==
    IF order = <<>> THEN acc
    ELSE scan(c, fs, Tail(order), scan_file(c, fs, Head(order), acc))

\* a store_new that slices the batch result at the offsets of all_chunks
RECURSIVE store_new_SlicesAtStartIdx(_, _, _, _, _, _, _)
store_new_SlicesAtStartIdx(c, fs, files_to_embed, new_embeddings, all_chunks, embed_offset, all_embeddings_list) ==
    IF files_to_embed = <<>>
    THEN [cache |-> c, all_embeddings_list |-> all_embeddings_list, sets |-> EmptyDict]
    ELSE LET fe == Head(files_to_embed)
             file_embeddings == ArraySlice(new_embeddings, fe.start_idx, fe.start_idx + fe.num_chunks)
             file_chunks == Slice(all_chunks, fe.start_idx, fe.start_idx + fe.num_chunks)
             rest == store_new_SlicesAtStartIdx(set(c, fs, fe.filename, file_chunks, file_embeddings), fs,
                               Tail(files_to_embed), new_embeddings, all_chunks,
                               embed_offset + fe.num_chunks,
                               Append(all_embeddings_list, file_embeddings))
         IN  [rest EXCEPT !.sets =
                 IF fe.filename \in DOMAIN rest.sets THEN rest.sets
                 ELSE DictPut(rest.sets, fe.filename,
                              [chunks |-> file_chunks, embeddings |-> file_embeddings])]

\* "for filename, filepath, start_idx, num_chunks in files_to_embed": slices
\* the batch result per file, stores it in the cache and appends it to
\* all_embeddings_list.  sets: per file name, the arguments of the last
\* cache.set call made for it
RECURSIVE store_new(_, _, _, _, _, _, _)
store_new(c, fs, files_to_embed, new_embeddings, all_chunks, embed_offset, all_embeddings_list) ==
    IF files_to_embed = <<>>
    THEN [cache |-> c, all_embeddings_list |-> all_embeddings_list, sets |-> EmptyDict]
    ELSE LET fe == Head(files_to_embed)
             file_embeddings == ArraySlice(new_embeddings, embed_offset, embed_offset + fe.num_chunks)
             file_chunks == Slice(all_chunks, fe.start_idx, fe.start_idx + fe.num_chunks)
             rest == store_new(set(c, fs, fe.filename, file_chunks, file_embeddings), fs,
                               Tail(files_to_embed), new_embeddings, all_chunks,
                               embed_offset + fe.num_chunks,
                               Append(all_embeddings_list, file_embeddings))
         IN  [rest EXCEPT !.sets =
                 IF fe.filename \in DOMAIN rest.sets THEN rest.sets
                 ELSE DictPut(rest.sets, fe.filename,
                              [chunks |-> file_chunks, embeddings |-> file_embeddings])]

\* an encode call per chunk instead of one call for the batch
encode_calls_PerChunk(chunks_to_embed) ==
    [i \in 1..Len(chunks_to_embed) |-> <<chunks_to_embed[i]>>]

\* "if chunks_to_embed: ... self.embedding_model.encode(chunks_to_embed, ...)":
\* the argument of every encode call load() makes, in order
encode_calls(chunks_to_embed) ==
    IF chunks_to_embed # <<>> THEN <<chunks_to_embed>> ELSE <<>>

\* what can go wrong in one call of load(): nothing, the embedding model
\* fails to initialize, the batched encode call raises, or the cache save
\* fails or is cut short.  A call ends at its first failure, so one fault
\* per call covers every combination.
LoadFaults == {"none", "model_init", "encode"} \cup SaveFaults

\* a failed model load that also drops the index
ModelInitFailure_ClearsIndex(k) ==
    [k EXCEPT !.result = "False", !.at = "model", !.chunks = <<>>,
              !.embeddings = None, !.chunk_metadata = <<>>, !.loaded = FALSE]

\* "if not self.embedding_model.load(): return False" when the model fails
\* to load: k is the state before the call
ModelInitFailure(k) == [k EXCEPT !.result = "False", !.at = "model"]

\* a failed encode call that also drops the index
EncodeFailure_ClearsIndex(k) ==
    [k EXCEPT !.result = "False", !.at = "encode", !.chunks = <<>>,
              !.embeddings = None, !.chunk_metadata = <<>>, !.loaded = FALSE]

\* "except Exception as e: ... return False" around the encode call
EncodeFailure(k) == [k EXCEPT !.result = "False", !.at = "encode"]

\* the state a call of load() leaves, the way it ends ("True", "False",
\* "CacheError" raised, or "crash": the process died in save) and the
\* place in load() where it ended
\* later is the directory as it is when the cache entries are stored
\* (manager.py:174-183), after the embeddings were computed.
LoadOutcomeDuring(order, fault, later) ==
    LET keep == [model |-> model, dirExists |-> dirExists, cache |-> cache,
                 chunks |-> chunks, embeddings |-> embeddings,
                 chunk_metadata |-> chunk_metadata, loaded |-> loaded,
                 cacheFile |-> cacheFile, tmpFile |-> tmpFile,
                 result |-> "False", at |-> "model",
                 cache_load |-> "none", cached |-> {}, save |-> "none",
                 sets |-> EmptyDict, encoded |-> <<>>]
    IN
    IF fault = "model_init" THEN ModelInitFailure(keep)
    ELSE
    LET k1 == [keep EXCEPT !.model = "loaded"] IN
    IF ~dirExists THEN [k1 EXCEPT !.dirExists = TRUE, !.result = "True", !.at = "mkdir"]
    ELSE
    LET cl == cache_load(cache, cacheFile) IN
    IF cl.result = "CacheError"
    THEN [k1 EXCEPT !.result = "CacheError", !.at = "cache_load", !.cache_load = "CacheError"]
    ELSE
    LET acc == scan(cl.cache, files, order, ScanStart)
        k2 == [k1 EXCEPT !.cache = cl.cache, !.cache_load = cl.result,
                         !.cached = DOMAIN cl.cache,
                         !.encoded = encode_calls(acc.chunks_to_embed)]
    IN
    IF acc.all_chunks = <<>> /\ acc.chunks_to_embed = <<>>
    THEN LET cleaned == clean(cl.cache, acc.existing_files)
             sv == cache_save(cleaned, cacheFile, tmpFile, fault)
         IN  [k2 EXCEPT !.cache = cleaned, !.cacheFile = sv.cacheFile,
                        !.tmpFile = sv.tmpFile, !.at = "empty", !.save = sv.result,
                        !.result = IF sv.result \in {"CacheError", "crash"}
                                   THEN sv.result ELSE "True"]
    ELSE
    IF acc.chunks_to_embed # <<>> /\ fault = "encode" THEN EncodeFailure(k2)
    ELSE
    LET st == IF acc.chunks_to_embed # <<>>
              THEN store_new(cl.cache, later, acc.files_to_embed,
                             encode(acc.chunks_to_embed), acc.all_chunks, 0,
                             acc.all_embeddings_list)
              ELSE [cache |-> cl.cache, all_embeddings_list |-> acc.all_embeddings_list,
                    sets |-> EmptyDict]
    IN
    IF st.all_embeddings_list = <<>>
    THEN [k2 EXCEPT !.cache = st.cache, !.result = "True", !.at = "no_embeddings",
                    !.sets = st.sets]
    ELSE
    LET cleaned == clean(st.cache, acc.existing_files)
        sv == cache_save(cleaned, cacheFile, tmpFile, fault)
    IN  [k2 EXCEPT !.cache = cleaned,
                   !.embeddings = vstack(st.all_embeddings_list),
                   !.chunks = acc.all_chunks,
                   !.chunk_metadata = acc.all_metadata,
                   !.loaded = TRUE,
                   !.cacheFile = sv.cacheFile, !.tmpFile = sv.tmpFile,
                   !.at = "end", !.save = sv.result, !.sets = st.sets,
                   !.result = IF sv.result \in {"CacheError", "crash"}
                              THEN sv.result ELSE "True"]

\* load() while nothing else touches the directory
LoadOutcome(order, fault) == LoadOutcomeDuring(order, fault, files)

----------------------------------------------------------------------------
(* RAGManager.retrieve, is_loaded, get_stats *)

\* len(tokenizer.encode(chunk))
TokenCount(chunk) ==
    CASE chunk = "P1" -> 3
      [] chunk = "Q1" -> 2
      [] chunk = "Q2" -> 4
      [] OTHER -> 1

Dot(u, v) == u[1] * v[1] + u[2] * v[2]

\* cosine_similarity(query_embedding, chunk_embeddings): the score of row e
\* is Dot(q, e) / (|q| |e|); with q fixed it is kept as the pair of
\* Dot(q, e) and |e|^2, compared by CosLess
cosine_similarity(q, rows) ==
    [i \in 1..Len(rows) |-> [dot |-> Dot(q, rows[i]), n2 |-> Dot(rows[i], rows[i])]]

\* x.dot / sqrt(x.n2) < y.dot / sqrt(y.n2)
CosLess(x, y) ==
    CASE x.dot < 0 /\ y.dot >= 0 -> TRUE
      [] x.dot >= 0 /\ y.dot < 0 -> FALSE
      [] x.dot >= 0 /\ y.dot >= 0 -> x.dot * x.dot * y.n2 < y.dot * y.dot * x.n2
      [] OTHER -> x.dot * x.dot * y.n2 > y.dot * y.dot * x.n2

\* np.argsort(similarities) with a stable sort: indices by ascending score,
\* equal scores in index order (indices are 1-based here)
argsort(sims) ==
    LET n == Len(sims)
        before(j, i) == CosLess(sims[j], sims[i]) \/ (~CosLess(sims[i], sims[j]) /\ j < i)
        rank(i) == 1 + Cardinality({j \in 1..n : j # i /\ before(j, i)})
    IN  [r \in 1..n |-> CHOOSE i \in 1..n : rank(i) = r]

\* np.argsort(similarities) as called, with the default kind='quicksort',
\* which is not a stable sort: every ascending order of the indices is a
\* possible result, equal scores in any order
ArgSorts(sims) ==
    {p \in Orders(1..Len(sims)) :
        \A r \in 1..(Len(sims) - 1) : ~CosLess(sims[p[r + 1]], sims[p[r]])}

Reverse(s) == [i \in 1..Len(s) |-> s[Len(s) + 1 - i]]

\* sorted[-top_k:][::-1]
top_slice(sorted, top_k) ==
    LET n == Len(sorted)
        from == IF top_k = 0 THEN 0
                ELSE IF top_k > 0 THEN (IF n - top_k > 0 THEN n - top_k ELSE 0)
                ELSE (IF -top_k < n THEN -top_k ELSE n)
    IN  Reverse(Slice(sorted, from, n))

\* np.argsort(similarities)[-top_k:][::-1], stable sort
top_indices(sims, top_k) == top_slice(argsort(sims), top_k)

\* "\n\n".join(selected_chunks)
RECURSIVE join(_)
join(strs) ==
    IF strs = <<>> THEN ""
    ELSE IF Len(strs) = 1 THEN strs[1]
    ELSE strs[1] \o "\n\n" \o join(Tail(strs))

\* "for idx in top_indices": the budget walk.  picked lists the indices of
\* the chunks appended to selected_chunks.
RECURSIVE walk_FillsOverBudget(_, _, _, _, _, _)
walk_FillsOverBudget(chs, idxs, max_tokens, selected_chunks, total_tokens, picked) ==
    IF idxs = <<>>
    THEN [selected |-> selected_chunks, total |-> total_tokens, picked |-> picked]
    ELSE LET chunk == chs[Head(idxs)]
             chunk_tokens == TokenCount(chunk)
         IN  IF total_tokens + chunk_tokens > max_tokens /\ ~(total_tokens * 10 < max_tokens * 8)
             THEN [selected |-> selected_chunks, total |-> total_tokens, picked |-> picked]
             ELSE walk_FillsOverBudget(chs, Tail(idxs), max_tokens,
                       Append(selected_chunks, chunk), total_tokens + chunk_tokens,
                       Append(picked, Head(idxs)))

\* a walk that stops at the first chunk that does not fit
RECURSIVE walk_StopsAtFirstMisfit(_, _, _, _, _, _)
walk_StopsAtFirstMisfit(chs, idxs, max_tokens, selected_chunks, total_tokens, picked) ==
    IF idxs = <<>>
    THEN [selected |-> selected_chunks, total |-> total_tokens, picked |-> picked]
    ELSE LET chunk == chs[Head(idxs)]
             chunk_tokens == TokenCount(chunk)
         IN  IF total_tokens + chunk_tokens > max_tokens
             THEN [selected |-> selected_chunks, total |-> total_tokens, picked |-> picked]
             ELSE walk_StopsAtFirstMisfit(chs, Tail(idxs), max_tokens,
                       Append(selected_chunks, chunk), total_tokens + chunk_tokens,
                       Append(picked, Head(idxs)))

RECURSIVE walk(_, _, _, _, _, _)
walk(chs, idxs, max_tokens, selected_chunks, total_tokens, picked) ==
    IF idxs = <<>>
    THEN [selected |-> selected_chunks, total |-> total_tokens, picked |-> picked]
    ELSE LET chunk == chs[Head(idxs)]
             chunk_tokens == TokenCount(chunk)
         IN  IF total_tokens + chunk_tokens > max_tokens
             THEN IF total_tokens * 10 < max_tokens * 8
                  THEN walk(chs, Tail(idxs), max_tokens, selected_chunks, total_tokens, picked)
                  ELSE [selected |-> selected_chunks, total |-> total_tokens, picked |-> picked]
             ELSE walk(chs, Tail(idxs), max_tokens,
                       Append(selected_chunks, chunk), total_tokens + chunk_tokens,
                       Append(picked, Head(idxs)))

\* what retrieve() returns when it returns early or catches an exception
EmptyRetrieval == [context |-> "", total_tokens |-> 0, picked |-> <<>>]

\* catching every exception of the body of retrieve()
retrieve_Uncaught(encOk, tokOk, body) ==
    IF ~encOk \/ ~tokOk
    THEN [context |-> "raised", total_tokens |-> -1, picked |-> <<>>]
    ELSE body

\* "try: ... except Exception: return '', 0" around the body of retrieve():
\* encode_single raises when ~encOk, tokenizer.encode when ~tokOk
retrieve_try(encOk, tokOk, body) ==
    IF ~encOk \/ ~tokOk THEN EmptyRetrieval ELSE body

\* RAGManager.retrieve(query, tokenizer, max_tokens, top_k) on an instance
\* whose fields are chs, embs, ld, mdl, where np.argsort returns sorted.
\* The result is (context, total_tokens); picked is kept beside it.
retrieve_sorted(chs, embs, ld, mdl, query, encOk, tokOk, max_tokens, top_k, sorted) ==
    IF ~ld \/ chs = <<>> THEN EmptyRetrieval
    ELSE retrieve_try(encOk /\ mdl = "loaded" /\ embs # None, tokOk,
             LET w == walk(chs, top_slice(sorted, top_k), max_tokens, <<>>, 0, <<>>)
             IN  [context |-> join(w.selected), total_tokens |-> w.total,
                  picked |-> w.picked])

\* the scores retrieve() ranks by
Similarities(embs, query) == cosine_similarity(encode_single(query), embs.rows)

\* retrieve() where np.argsort happens to sort stably; tokOk: tokenizer.encode
\* works
retrieve(chs, embs, ld, mdl, query, tokOk, max_tokens, top_k) ==
    LET r == retrieve_sorted(chs, embs, ld, mdl, query, TRUE, tokOk, max_tokens, top_k,
                             argsort(Similarities(embs, query)))
    IN  <<r.context, r.total_tokens>>

\* RAGManager.is_loaded()
is_loaded(ld) == ld

\* RAGManager.get_stats()
get_stats(chs, meta, ld) ==
    IF ~ld THEN [loaded |-> FALSE, num_chunks |-> 0, num_files |-> 0]
    ELSE LET unique_files == {meta[i].filename : i \in 1..Len(meta)}
         IN  [loaded |-> TRUE, num_chunks |-> Len(chs),
              num_files |-> Cardinality(unique_files), files |-> unique_files]

----------------------------------------------------------------------------
(* History: what a load() call was given *)

\* a document load() has to index: regular file, allowed extension, not
\* excluded, decodable
Indexable(fs, filename) ==
    /\ fs[filename].kind = "file"
    /\ filename \notin EXCLUDED_FILES
    /\ splitext_lower(filename) \in SUPPORTED_EXTENSIONS
    /\ Readable(fs[filename].text)

\* the index the directory calls for: per document in listing order, its
\* chunks in order, each with the name of its document
RefIndex(fs, order) ==
    Flatten([i \in 1..Len(order) |->
        IF Indexable(fs, order[i])
        THEN LET cs == ChunksOfText(fs[order[i]].text)
             IN  [j \in 1..Len(cs) |-> [chunk |-> cs[j], filename |-> order[i]]]
        ELSE <<>>])

NoLoad ==
    [ref |-> <<>>, fresh |-> FALSE, before |-> Absent, cached |-> {}, stored |-> {},
     encoded |-> <<>>, data |-> EmptyDict]

NoResult == [value |-> "none", at |-> "none", cache_load |-> "none", save |-> "none"]

NoRetrieve == [called |-> FALSE]

\* no prepare_prompt() call is in progress
NoPrompt == [pc |-> "idle"]

\* no chunk_text() call is in progress
NoChunking == [pc |-> "idle"]

\* no chat session is followed
NoTurn == [pc |-> "none"]

\* config.DEFAULT_RAG_TOP_K
RAG_TOP_K == 10

\* the instance is as RAGManager.__init__ leaves it
IsFresh ==
    /\ model = "None"
    /\ cache = EmptyDict
    /\ chunks = <<>>
    /\ embeddings = None
    /\ chunk_metadata = <<>>
    /\ loaded = FALSE

----------------------------------------------------------------------------
(* The state machine *)

FreshModel == "None"

Init ==
    /\ clock = 0
    /\ dirExists = FALSE
    /\ files = [n \in DocNames |-> Absent]
    /\ cacheFile = Absent
    /\ tmpFile = Absent
    /\ model = FreshModel
    /\ cache = EmptyDict
    /\ chunks = <<>>
    /\ embeddings = None
    /\ chunk_metadata = <<>>
    /\ loaded = FALSE
    /\ lastResult = NoResult
    /\ lastLoad = NoLoad
    /\ everInitFailed = FALSE
    /\ lastSet = [n \in DocNames |-> None]
    /\ faults = 0
    /\ lastRetrieve = NoRetrieve
    /\ messages = <<>>
    /\ pp = NoPrompt
    /\ ct = NoChunking
    /\ turn = NoTurn

\* RAGManager.load() on the instance of the running process.  A crash
\* inside the cache save ends the process: the next step sees a new one.
LoadDuring(order, fault, later) ==
      /\ fault = "none" \/ faults < MaxFaults
      /\ \E o \in {LoadOutcomeDuring(order, fault, later)} :
        LET died == o.result = "crash"
        IN  /\ faults' = IF fault = "none" THEN faults ELSE faults + 1
            /\ dirExists' = o.dirExists
            /\ cacheFile' = o.cacheFile
            /\ tmpFile' = o.tmpFile
            /\ model' = IF died THEN FreshModel ELSE o.model
            /\ cache' = IF died THEN EmptyDict ELSE o.cache
            /\ chunks' = IF died THEN <<>> ELSE o.chunks
            /\ embeddings' = IF died THEN None ELSE o.embeddings
            /\ chunk_metadata' = IF died THEN <<>> ELSE o.chunk_metadata
            /\ loaded' = IF died THEN FALSE ELSE o.loaded
            /\ lastResult' = [value |-> o.result, at |-> o.at,
                              cache_load |-> o.cache_load, save |-> o.save]
            /\ lastLoad' = [ref |-> IF dirExists THEN RefIndex(files, order) ELSE <<>>,
                            fresh |-> IsFresh,
                            before |-> IF died THEN cacheFile ELSE [kind |-> cacheFile.kind],
                            cached |-> o.cached,
                            stored |-> DOMAIN o.sets,
                            encoded |-> o.encoded,
                            data |-> IF died THEN o.cache ELSE EmptyDict]
            /\ lastSet' = [n \in DocNames |->
                               IF n \in DOMAIN o.sets THEN o.sets[n] ELSE lastSet[n]]
            /\ everInitFailed' = IF died THEN FALSE ELSE (everInitFailed \/ fault = "model_init")
            /\ files' = later
            /\ UNCHANGED callVars

Load ==
    \E order \in Listings(files), fault \in LoadFaults :
        /\ LoadDuring(order, fault, files)
        /\ UNCHANGED clock

\* a load() during which the user rewrites a document after load() has read
\* the directory and before it stores the new cache entries
LoadDuringWrite ==
    \E order \in Listings(files), fault \in LoadFaults, n \in DocNames, text \in Texts :
        /\ dirExists
        /\ clock < MaxMtime
        /\ clock' = clock + 1
        /\ LoadDuring(order, fault,
                      [files EXCEPT ![n] = [kind |-> "file", mtime |-> clock + 1,
                                            text |-> text]])

\* the process ends and a new one constructs its RAGManager
Restart ==
    /\ model' = FreshModel
    /\ cache' = EmptyDict
    /\ chunks' = <<>>
    /\ embeddings' = None
    /\ chunk_metadata' = <<>>
    /\ loaded' = FALSE
    /\ lastResult' = NoResult
    /\ lastLoad' = NoLoad
    /\ everInitFailed' = FALSE
    /\ UNCHANGED diskVars
    /\ UNCHANGED <<lastSet, faults>>
    /\ UNCHANGED callVars

\* the user creates or rewrites a document
WriteDoc ==
    \E n \in DocNames, text \in Texts :
        /\ dirExists
        /\ clock < MaxMtime
        /\ clock' = clock + 1
        /\ files' = [files EXCEPT ![n] = [kind |-> "file", mtime |-> clock + 1, text |-> text]]
        /\ lastResult' = NoResult
        /\ lastLoad' = NoLoad
        /\ UNCHANGED <<dirExists, cacheFile, tmpFile, everInitFailed, lastSet, faults>>
        /\ UNCHANGED instVars
        /\ UNCHANGED callVars

\* the user deletes a document
DeleteDoc ==
    \E n \in DocNames :
        /\ files[n].kind = "file"
        /\ files' = [files EXCEPT ![n] = Absent]
        /\ lastResult' = NoResult
        /\ lastLoad' = NoLoad
        /\ UNCHANGED <<clock, dirExists, cacheFile, tmpFile, everInitFailed, lastSet, faults>>
        /\ UNCHANGED instVars
        /\ UNCHANGED callVars

\* the user removes the memory directory with everything in it
RemoveDir ==
    /\ dirExists
    /\ dirExists' = FALSE
    /\ files' = [n \in DocNames |-> Absent]
    /\ cacheFile' = Absent
    /\ tmpFile' = Absent
    /\ lastResult' = NoResult
    /\ lastLoad' = NoLoad
    /\ UNCHANGED <<clock, everInitFailed, lastSet, faults>>
    /\ UNCHANGED instVars
    /\ UNCHANGED callVars

\* the cache file is damaged or made unreadable outside the program
DamageCache ==
    \E k \in {"garbage", "truncated", "notdict", "unreadable"} :
        /\ PathExists(cacheFile)
        /\ faults < MaxFaults
        /\ faults' = faults + 1
        /\ cacheFile' = [kind |-> k]
        /\ lastResult' = NoResult
        /\ lastLoad' = NoLoad
        /\ UNCHANGED <<clock, dirExists, files, tmpFile, everInitFailed, lastSet>>
        /\ UNCHANGED instVars
        /\ UNCHANGED callVars

Next ==
    \/ Load
    \/ Restart
    \/ WriteDoc
    \/ DeleteDoc
    \/ RemoveDir
    \/ DamageCache

Spec == Init /\ [][Next]_vars

\* the same with documents rewritten while load() runs
RaceNext ==
    \/ Next
    \/ LoadDuringWrite

RaceSpec == Init /\ [][RaceNext]_vars

----------------------------------------------------------------------------
(* load() over a directory that also holds entries load() has to skip *)

CacheFileName == ".embeddings_cache.pkl"

\* the names of the directory: two documents, an excluded name and the cache
\* file; "b.md" and "README.md" may be directories
DirNames == DocNames \cup {"README.md", CacheFileName}

Directory == [kind |-> "dir"]

\* the cache file as an entry of the listing
ListedCacheFile(file) ==
    IF PathExists(file) THEN [kind |-> "file", mtime |-> 0, text |-> "\\xff"] ELSE Absent

\* a directory as the user and an earlier run left it, and a new RAGManager
DirInit ==
    /\ clock = 0
    /\ dirExists = TRUE
    /\ cacheFile \in {Absent,
                       pickle_dump(DictPut(EmptyDict, "b.md",
                           [timestamp |-> 0, chunks |-> <<"P1">>,
                            embeddings |-> <<EmbedVec("P1")>>]))}
    /\ \E a \in {Absent} \cup [kind : {"file"}, mtime : {0}, text : {"P", "Q"}],
          b \in {Absent, Directory, [kind |-> "file", mtime |-> 0, text |-> "P"]},
          readme \in {Absent, Directory, [kind |-> "file", mtime |-> 0, text |-> "Q"]} :
          files = [n \in DirNames |->
                      CASE n = "a.md" -> a
                        [] n = "b.md" -> b
                        [] n = "README.md" -> readme
                        [] OTHER -> ListedCacheFile(cacheFile)]
    /\ tmpFile = Absent
    /\ model = FreshModel
    /\ cache = EmptyDict
    /\ chunks = <<>>
    /\ embeddings = None
    /\ chunk_metadata = <<>>
    /\ loaded = FALSE
    /\ lastResult = NoResult
    /\ lastLoad = NoLoad
    /\ everInitFailed = FALSE
    /\ lastSet = [n \in DocNames |-> None]
    /\ faults = 0
    /\ lastRetrieve = NoRetrieve
    /\ messages = <<>>
    /\ pp = NoPrompt
    /\ ct = NoChunking
    /\ turn = NoTurn

\* load() on that directory; the cache file it writes shows in the listing
DirLoad ==
    \E order \in Listings(files), fault \in LoadFaults, listed \in {TRUE, FALSE} :
        /\ LoadDuring(order, fault,
                [files EXCEPT ![CacheFileName] =
                    IF listed THEN [kind |-> "file", mtime |-> 0, text |-> "\\xff"]
                    ELSE Absent])
        /\ listed = PathExists(cacheFile')
        /\ UNCHANGED clock

DirNext ==
    \/ DirLoad
    \/ Restart

DirSpec == DirInit /\ [][DirNext]_vars

----------------------------------------------------------------------------
(* retrieve() over any index *)

\* five chunks whose scores against "p?" fall in the order 1st, 5th, 3rd,
\* 2nd, 4th, as the scores 0.9, 0.1, 0.5, 0.8, 0.3 do
ScenarioC ==
    [chunks |-> <<"S1", "S2", "S3", "S4", "S5">>,
     rows |-> << <<6, 2>>, <<2, 20>>, <<20, 20>>, <<20, 10>>, <<10, 20>> >>]

\* the indexes retrieve() is tried on: chunks and embedding rows in parallel
Indexes ==
    {ScenarioC} \cup
    UNION {{[chunks |-> [i \in 1..n |-> e[i][1]], rows |-> [i \in 1..n |-> e[i][2]]] :
              e \in [1..n -> IndexChunks \X IndexVecs]} : n \in 0..MaxIndex}

\* a RAGManager holding an index, as a load() that built it leaves it; with
\* no chunks, as __init__ leaves it
RetrieveInit ==
    /\ clock = 0
    /\ dirExists = TRUE
    /\ files = [n \in DocNames |-> Absent]
    /\ cacheFile = Absent
    /\ tmpFile = Absent
    /\ cache = EmptyDict
    /\ \E ix \in Indexes :
          /\ chunks = ix.chunks
          /\ embeddings = IF ix.chunks = <<>> THEN None
                          ELSE [kind |-> "ndarray", dtype |-> "float32", rows |-> ix.rows]
          /\ chunk_metadata = MetadataFor("a.md", ix.chunks)
          /\ loaded = (ix.chunks # <<>>)
          /\ model = IF ix.chunks = <<>> THEN FreshModel ELSE "loaded"
    /\ lastResult = NoResult
    /\ lastLoad = NoLoad
    /\ everInitFailed = FALSE
    /\ lastSet = [n \in DocNames |-> None]
    /\ faults = 0
    /\ lastRetrieve = NoRetrieve
    /\ messages = <<>>
    /\ pp = NoPrompt
    /\ ct = NoChunking
    /\ turn = NoTurn

\* how a collaborator may fail during a retrieve() call
RetrieveFaults == {"none", "encode_single", "tokenizer"}

\* RAGManager.retrieve(query, tokenizer, max_tokens, top_k); callers make
\* one call at a time
Retrieve ==
    \E query \in Queries, max_tokens \in Budgets, top_k \in TopKs, fault \in RetrieveFaults :
      /\ ~lastRetrieve.called
      /\ \E sorted \in (IF loaded /\ fault # "encode_single"
                     THEN ArgSorts(Similarities(embeddings, query)) ELSE {<<>>}) :
          /\ lastRetrieve' =
                [called |-> TRUE, query |-> query, max_tokens |-> max_tokens,
                 top_k |-> top_k, fault |-> fault, sorted |-> sorted,
                 result |-> retrieve_sorted(chunks, embeddings, loaded, model, query,
                                fault # "encode_single", fault # "tokenizer",
                                max_tokens, top_k, sorted)]
          /\ UNCHANGED diskVars
          /\ UNCHANGED instVars
          /\ UNCHANGED <<lastResult, lastLoad, everInitFailed, lastSet, faults>>
          /\ UNCHANGED <<messages, pp, ct, turn>>

\* the caller has taken the result of retrieve()
RetrieveReturn ==
    /\ lastRetrieve.called
    /\ lastRetrieve' = NoRetrieve
    /\ UNCHANGED diskVars
    /\ UNCHANGED instVars
    /\ UNCHANGED <<lastResult, lastLoad, everInitFailed, lastSet, faults>>
    /\ UNCHANGED <<messages, pp, ct, turn>>

RetrieveNext ==
    \/ Retrieve
    \/ RetrieveReturn

RetrieveSpec == RetrieveInit /\ [][RetrieveNext]_vars

----------------------------------------------------------------------------
(* ContextManager and prepare_prompt: src/src/models/context.py,          *)
(* src/src/models/prompt_formatter.py (src/src/context_manager.py holds   *)
(* the same code as one method)                                           *)

\* bool(x) of an Optional[str]
Truthy(x) == x # "None" /\ x # ""

\* str.strip() on the retrieval contexts drawn here
strip(x) == IF x = " " THEN "" ELSE x

\* the system message _build_messages_with_rag injects
RagBlock(rag_context) ==
    [role |-> "system",
     content |-> "# Knowledge Base Context\n\n" \o rag_context \o
                 "\n\n---\n\nUse the above context to help answer questions when relevant."]

\* _build_messages_with_rag without the test of rag_context.strip()
build_messages_with_rag_InjectsBlank(msgs, rag_context) ==
    IF ~Truthy(rag_context) THEN msgs
    ELSE LET has_system == msgs # <<>> /\ msgs[1].role = "system"
             chat_start_idx == IF has_system THEN 1 ELSE 0
         IN  (IF has_system THEN <<msgs[1]>> ELSE <<>>)
                 \o <<RagBlock(rag_context)>>
                 \o Slice(msgs, chat_start_idx, Len(msgs))

\* _build_messages_with_rag(messages, rag_context)
build_messages_with_rag(msgs, rag_context) ==
    IF ~Truthy(rag_context) \/ ~Truthy(strip(rag_context)) THEN msgs
    ELSE LET has_system == msgs # <<>> /\ msgs[1].role = "system"
             chat_start_idx == IF has_system THEN 1 ELSE 0
         IN  (IF has_system THEN <<msgs[1]>> ELSE <<>>)
                 \o <<RagBlock(rag_context)>>
                 \o Slice(msgs, chat_start_idx, Len(msgs))

\* The list objects of a prepare_prompt call are told apart by name:
\* "messages" is the list the ContextManager stores, every other name is a
\* list made during the call.
\* a list.copy() that hands back the list it was called on
list_copy_Alias(obj, fresh) == obj

\* list.copy(): a new list object, named fresh
list_copy(obj, fresh) == fresh

\* the list object _build_messages_with_rag(messages, rag_context) returns:
\* "messages.copy()" without a context, else the list messages_with_rag
build_messages_with_rag_object(msgs_obj, rag_context) ==
    IF ~Truthy(rag_context) \/ ~Truthy(strip(rag_context))
    THEN list_copy(msgs_obj, "messages_to_format")
    ELSE "messages_with_rag"

\* the text a chat template renders for a message list, generation prompt
\* at the end
RECURSIVE TemplateText(_)
TemplateText(msgs) ==
    IF msgs = <<>> THEN "[assistant]"
    ELSE "[" \o Head(msgs).role \o "]" \o Head(msgs).content \o "[/]" \o TemplateText(Tail(msgs))

\* tokenizer.apply_chat_template(msgs, tokenize=False,
\* add_generation_prompt=True) when it does not raise; the message list is
\* kept beside the text
apply_chat_template(msgs) == [by |-> "template", text |-> TemplateText(msgs), messages |-> msgs]

\* number of tokens of a message content
ContentTokens(content) ==
    CASE content = "" -> 0
      [] content = "hi" -> 1
      [] content = "SYS" -> 2
      [] content = "long" -> 6
      [] OTHER -> 3

\* tokenizer(prompt).input_ids.shape[1]: one token per role tag and for the
\* generation prompt, plus the tokens of the contents
RECURSIVE MessageTokens(_)
MessageTokens(msgs) ==
    IF msgs = <<>> THEN 0
    ELSE 1 + ContentTokens(Head(msgs).content) + MessageTokens(Tail(msgs))

Measure(prompt) == 1 + MessageTokens(prompt.messages)

\* "for msg in ...: prompt += f'<|role|>\ncontent</s>\n'"
RECURSIVE ManualText(_)
ManualText(msgs) ==
    IF msgs = <<>> THEN ""
    ELSE "<|" \o Head(msgs).role \o "|>\n" \o Head(msgs).content \o "</s>\n"
             \o ManualText(Tail(msgs))

\* the last resort of prepare_prompt without the closing assistant tag
manual_format_NoGenerationPrompt(msgs, messages_to_format, num_preserved) ==
    LET shown == Slice(messages_to_format, 0, num_preserved)
                     \o (IF msgs # <<>> THEN <<msgs[Len(msgs)]>> ELSE <<>>)
    IN  [by |-> "manual", text |-> ManualText(shown), messages |-> shown]

\* the last resort of prepare_prompt: manual formatting
manual_format(msgs, messages_to_format, num_preserved) ==
    LET shown == Slice(messages_to_format, 0, num_preserved)
                     \o (IF msgs # <<>> THEN <<msgs[Len(msgs)]>> ELSE <<>>)
    IN  [by |-> "manual", text |-> ManualText(shown) \o "<|assistant|>\n",
         messages |-> shown]

\* a pop that removes the last entry whatever the index
pop_TakesLast(list, i) == SubSeq(list, 1, Len(list) - 1)

\* list.pop(i), i counted from 0
pop(list, i) == SubSeq(list, 1, i) \o SubSeq(list, i + 2, Len(list))

\* "num_preserved = 2 if rag_context else 1"
num_preserved_of(rag_context) == IF Truthy(rag_context) THEN 2 ELSE 1

\* how one try block of prepare_prompt may go: both tokenizer calls work,
\* apply_chat_template raises, or the measuring call raises
TryOutcomes == {"ok", "template_raises", "measure_raises"}

\* prepare_prompt(msgs, tokenizer, max_length, rag_context) up to the
\* pruning loop: the frame of the call after the try on the full prompt.
\* raised: a tokenizer call of this prepare_prompt call has raised.
\* objects: the list object each local name is bound to.
try_full_prompt(msgs, max_length, rag_context, outcome) ==
    LET messages_to_format == build_messages_with_rag(msgs, rag_context)
        full_prompt == apply_chat_template(messages_to_format)
        messages_to_format_object == build_messages_with_rag_object("messages", rag_context)
        frame == [max_length |-> max_length, rag_context |-> rag_context,
                  messages_to_format |-> messages_to_format,
                  num_preserved |-> num_preserved_of(rag_context),
                  pruned_messages |-> messages_to_format,
                  objects |-> [messages_to_format |-> messages_to_format_object,
                               pruned_messages |->
                                   list_copy(messages_to_format_object, "pruned_messages")],
                  popped |-> <<>>, raised |-> outcome # "ok"]
    IN  IF outcome = "ok" /\ Measure(full_prompt) <= max_length
        THEN frame @@ [pc |-> "returned", result |-> full_prompt, verified |-> TRUE]
        ELSE frame @@ [pc |-> "loop"]

\* ContextManager.__init__(system_prompt)
PromptInit ==
    /\ clock = 0
    /\ dirExists = FALSE
    /\ files = [n \in DocNames |-> Absent]
    /\ cacheFile = Absent
    /\ tmpFile = Absent
    /\ model = FreshModel
    /\ cache = EmptyDict
    /\ chunks = <<>>
    /\ embeddings = None
    /\ chunk_metadata = <<>>
    /\ loaded = FALSE
    /\ lastResult = NoResult
    /\ lastLoad = NoLoad
    /\ everInitFailed = FALSE
    /\ lastSet = [n \in DocNames |-> None]
    /\ faults = 0
    /\ lastRetrieve = NoRetrieve
    /\ \E system_prompt \in SystemPrompts :
          messages = IF Truthy(system_prompt)
                     THEN <<[role |-> "system", content |-> system_prompt]>>
                     ELSE <<>>
    /\ pp = NoPrompt
    /\ ct = NoChunking
    /\ turn = NoTurn

ragVars == <<clock, dirExists, files, cacheFile, tmpFile, model, cache, chunks,
             embeddings, chunk_metadata, loaded, lastResult, lastLoad,
             everInitFailed, lastSet, faults, lastRetrieve, ct, turn>>

\* the user and assistant messages of a message list
Conversation(msgs) == SelectSeq(msgs, LAMBDA m : m.role # "system")

\* ContextManager.add_message(role, content)
AddMessage ==
    \E role \in {"user", "assistant"}, content \in Contents :
        /\ pp.pc = "idle"
        /\ Len(Conversation(messages)) < MaxMessages
        /\ messages' = Append(messages, [role |-> role, content |-> content])
        /\ UNCHANGED pp
        /\ UNCHANGED ragVars

\* prepare_prompt(messages, tokenizer, max_length, rag_context) up to the
\* pruning loop: build the message list and try the full prompt
PreparePrompt ==
    \E max_length \in MaxLengths, rag_context \in RagContexts, outcome \in TryOutcomes :
        /\ pp.pc = "idle"
        /\ pp' = try_full_prompt(messages, max_length, rag_context, outcome)
        /\ UNCHANGED messages
        /\ UNCHANGED ragVars

\* one pass of "while len(pruned_messages) > num_preserved".  The pop acts on
\* the list object pruned_messages is bound to, and so on every name bound
\* to that object.
PruneStep ==
    \E outcome \in TryOutcomes :
        LET prompt == apply_chat_template(pp.pruned_messages)
            returns == outcome = "ok" /\ Measure(prompt) < pp.max_length
            popped_list == pp.objects.pruned_messages
        IN
        /\ pp.pc = "loop"
        /\ Len(pp.pruned_messages) > pp.num_preserved
        /\ pp' = IF returns
                 THEN [f \in (DOMAIN pp) \cup {"result", "verified"} |->
                          CASE f = "pc" -> "returned"
                            [] f = "result" -> prompt
                            [] f = "verified" -> TRUE
                            [] OTHER -> pp[f]]
                 ELSE [pp EXCEPT
                          !.pruned_messages = pop(@, pp.num_preserved),
                          !.messages_to_format =
                              IF pp.objects.messages_to_format = popped_list
                              THEN pop(@, pp.num_preserved) ELSE @,
                          !.popped = Append(@, pp.pruned_messages[pp.num_preserved + 1]),
                          !.raised = @ \/ outcome # "ok"]
        /\ messages' = IF ~returns /\ popped_list = "messages"
                       THEN pop(messages, pp.num_preserved) ELSE messages
        /\ UNCHANGED ragVars

\* after the loop: the minimal prompt, or manual formatting when
\* apply_chat_template raises
MinimalPrompt ==
    \E outcome \in {"ok", "template_raises"} :
        LET last_message == IF messages # <<>> THEN messages[Len(messages)]
                            ELSE [role |-> "user", content |-> ""]
            minimal_messages == Slice(pp.messages_to_format, 0, pp.num_preserved)
                                    \o <<last_message>>
            result == IF outcome = "ok" THEN apply_chat_template(minimal_messages)
                      ELSE manual_format(messages, pp.messages_to_format, pp.num_preserved)
        IN  /\ pp.pc = "loop"
            /\ Len(pp.pruned_messages) <= pp.num_preserved
            /\ pp' = [f \in (DOMAIN pp) \cup {"result", "verified"} |->
                          CASE f = "pc" -> "returned"
                            [] f = "result" -> result
                            [] f = "verified" -> FALSE
                            [] f = "raised" -> pp.raised \/ outcome # "ok"
                            [] OTHER -> pp[f]]
            /\ UNCHANGED messages
            /\ UNCHANGED ragVars

\* the caller has taken the prompt
PromptReturn ==
    /\ pp.pc = "returned"
    /\ pp' = NoPrompt
    /\ UNCHANGED messages
    /\ UNCHANGED ragVars

PromptNext ==
    \/ AddMessage
    \/ PreparePrompt
    \/ PruneStep
    \/ MinimalPrompt
    \/ PromptReturn

PromptSpec == PromptInit /\ [][PromptNext]_vars

\* a call of prepare_prompt runs on: nothing suspends its loop
PromptLiveSpec ==
    PromptInit /\ [][PromptNext]_vars /\ WF_vars(PruneStep) /\ WF_vars(MinimalPrompt)

----------------------------------------------------------------------------
(* A chat turn: ChatSession (src/src/app/session.py) and                  *)
(* ChatLoop.handle_message (src/src/app/chat_loop.py)                     *)

\* the indexes a session is followed over
TurnIndexes == {ix \in Indexes : Len(ix.chunks) <= 1}

\* what the call self.rag_manager.retrieve(...) does for the session: it
\* returns its context or raises
Retrievals(query, max_tokens, top_k) ==
    {[raised |-> TRUE]} \cup
    {[raised |-> FALSE,
      context |-> retrieve_sorted(chunks, embeddings, loaded, model, query,
                                  fault # "encode_single", fault # "tokenizer",
                                  max_tokens, top_k, sorted).context] :
        fault \in RetrieveFaults,
        sorted \in (IF loaded THEN ArgSorts(Similarities(embeddings, query)) ELSE {<<>>})}

\* a get_rag_context without the try around retrieve()
get_rag_context_Uncaught(rag_manager, ld, retrieval) ==
    IF ~rag_manager \/ ~is_loaded(ld) THEN [raised |-> FALSE, context |-> ""]
    ELSE retrieval

\* ChatSession.get_rag_context(query): rag_manager tells whether the session
\* has a RAG manager, retrieval is what its retrieve() does when called
get_rag_context(rag_manager, ld, retrieval) ==
    IF ~rag_manager \/ ~is_loaded(ld) THEN [raised |-> FALSE, context |-> ""]
    ELSE IF retrieval.raised THEN [raised |-> FALSE, context |-> ""]
    ELSE retrieval

\* ChatSession.__init__(model_handler, rag_manager) over a RAGManager as a
\* load() left it, and a new ContextManager
TurnInit ==
    /\ clock = 0
    /\ dirExists = TRUE
    /\ files = [n \in DocNames |-> Absent]
    /\ cacheFile = Absent
    /\ tmpFile = Absent
    /\ cache = EmptyDict
    /\ \E ix \in TurnIndexes :
          /\ chunks = ix.chunks
          /\ embeddings = IF ix.chunks = <<>> THEN None
                          ELSE [kind |-> "ndarray", dtype |-> "float32", rows |-> ix.rows]
          /\ chunk_metadata = MetadataFor("a.md", ix.chunks)
          /\ loaded = (ix.chunks # <<>>)
          /\ model = IF ix.chunks = <<>> THEN FreshModel ELSE "loaded"
    /\ lastResult = NoResult
    /\ lastLoad = NoLoad
    /\ everInitFailed = FALSE
    /\ lastSet = [n \in DocNames |-> None]
    /\ faults = 0
    /\ lastRetrieve = NoRetrieve
    /\ \E system_prompt \in SystemPrompts :
          messages = IF Truthy(system_prompt)
                     THEN <<[role |-> "system", content |-> system_prompt]>>
                     ELSE <<>>
    /\ pp = NoPrompt
    /\ ct = NoChunking
    /\ \E rag_manager \in BOOLEAN, available_context \in MaxLengths,
          rag_token_budget \in Budgets :
          turn = [pc |-> "idle", rag_manager |-> rag_manager,
                  available_context |-> available_context,
                  rag_token_budget |-> rag_token_budget,
                  why |-> "none", rag_context |-> ""]

notTurnVars == <<clock, dirExists, files, cacheFile, tmpFile, model, cache, chunks,
                 embeddings, chunk_metadata, loaded, lastResult, lastLoad,
                 everInitFailed, lastSet, faults, lastRetrieve, ct>>

\* ChatLoop.handle_message(user_input) up to the first try of
\* prepare_prompt: add the user message, get the RAG context, show its size,
\* start prepare_prompt.  "raised": an exception left handle_message.
HandleMessage ==
    \E user_input \in Queries, display \in {"ok", "encode_raises"}, outcome \in TryOutcomes :
    \E retrieval \in Retrievals(user_input, turn.rag_token_budget, RAG_TOP_K) :
        LET msgs == Append(messages, [role |-> "user", content |-> user_input])
            got == get_rag_context(turn.rag_manager, loaded, retrieval)
            why == IF ~turn.rag_manager THEN "no_manager"
                   ELSE IF ~is_loaded(loaded) THEN "not_loaded"
                   ELSE IF retrieval.raised THEN "retrieve_raised"
                   ELSE "retrieved"
            escaped == got.raised \/ (Truthy(got.context) /\ display = "encode_raises")
        IN  /\ turn.pc = "idle"
            /\ Len(Conversation(messages)) < MaxMessages
            /\ messages' = msgs
            /\ turn' = [turn EXCEPT !.pc = IF escaped THEN "raised" ELSE "prompt",
                                    !.why = why,
                                    !.rag_context = IF got.raised THEN "" ELSE got.context]
            /\ pp' = IF escaped THEN NoPrompt
                     ELSE try_full_prompt(msgs, turn.available_context, got.context, outcome)
            /\ UNCHANGED notTurnVars

\* the rest of handle_message once prepare_prompt has returned: generate the
\* response and add it to the conversation; KeyboardInterrupt ends the
\* chat, any other exception is shown and the chat goes on
Generate ==
    \E generation \in {"ok", "ModelInferenceError", "KeyboardInterrupt", "Exception"} :
        /\ turn.pc = "prompt"
        /\ pp.pc = "returned"
        /\ messages' = IF generation = "ok"
                       THEN Append(messages, [role |-> "assistant", content |-> "hi"])
                       ELSE messages
        /\ turn' = [turn EXCEPT !.pc = IF generation = "KeyboardInterrupt"
                                        THEN "exit" ELSE "idle"]
        /\ pp' = NoPrompt
        /\ UNCHANGED notTurnVars

TurnNext ==
    \/ HandleMessage
    \/ PruneStep
    \/ MinimalPrompt
    \/ Generate

TurnSpec == TurnInit /\ [][TurnNext]_vars

----------------------------------------------------------------------------
(* chunk_text: src/src/rag/embeddings.py.  A text is the sequence of its  *)
(* characters.                                                            *)

Whitespace == {" ", "\n"}

RECURSIVE lstrip(_)
lstrip(t) == IF t # <<>> /\ Head(t) \in Whitespace THEN lstrip(Tail(t)) ELSE t

RECURSIVE rstrip(_)
rstrip(t) ==
    IF t # <<>> /\ t[Len(t)] \in Whitespace THEN rstrip(SubSeq(t, 1, Len(t) - 1)) ELSE t

\* a strip() that also takes the first character of what is left
text_strip_LosesEdge(t) ==
    LET stripped == rstrip(lstrip(t)) IN IF stripped = <<>> THEN stripped ELSE Tail(stripped)

\* str.strip() of a text
text_strip(t) == rstrip(lstrip(t))

\* the positions, counted from 0, at which sub occurs in t
Occurrences(t, sub) ==
    {i \in 0..(Len(t) - Len(sub)) : SubSeq(t, i + 1, i + Len(sub)) = sub}

Least(S) == CHOOSE x \in S : \A y \in S : x <= y
Greatest(S) == CHOOSE x \in S : \A y \in S : x >= y

\* str.find(sub) and str.rfind(sub)
find(t, sub) == IF Occurrences(t, sub) = {} THEN -1 ELSE Least(Occurrences(t, sub))
rfind(t, sub) == IF Occurrences(t, sub) = {} THEN -1 ELSE Greatest(Occurrences(t, sub))

\* a _find_break_point that always breaks hard at end
find_break_point_HardBreak(text, start, end, overlap) == end

\* a _find_break_point that cuts after the leftmost marker of the window
find_break_point_LeftmostMarker(text, start, end, overlap) ==
    LET search_start == IF start > end - overlap THEN start ELSE end - overlap
        search_end == IF Len(text) < end + overlap THEN Len(text) ELSE end + overlap
        search_window == IF search_start < search_end
                         THEN Slice(text, search_start, search_end) ELSE <<>>
        has(sub) == Occurrences(search_window, sub) # {}
    IN  CASE search_window = <<>> -> end
          [] has(<<"\n", "\n">>) -> search_start + find(search_window, <<"\n", "\n">>) + 2
          [] has(<<"\n">>) -> search_start + find(search_window, <<"\n">>) + 1
          [] has(<<".", " ">>) -> search_start + find(search_window, <<".", " ">>) + 2
          [] has(<<"!", " ">>) -> search_start + find(search_window, <<"!", " ">>) + 2
          [] has(<<"?", " ">>) -> search_start + find(search_window, <<"?", " ">>) + 2
          [] has(<<" ">>) -> search_start + find(search_window, <<" ">>) + 1
          [] OTHER -> end

\* _find_break_point(text, start, end, overlap)
find_break_point(text, start, end, overlap) ==
    LET search_start == IF start > end - overlap THEN start ELSE end - overlap
        search_end == IF Len(text) < end + overlap THEN Len(text) ELSE end + overlap
        search_window == IF search_start < search_end
                         THEN Slice(text, search_start, search_end) ELSE <<>>
        has(sub) == Occurrences(search_window, sub) # {}
    IN  CASE search_window = <<>> -> end
          [] has(<<"\n", "\n">>) -> search_start + rfind(search_window, <<"\n", "\n">>) + 2
          [] has(<<"\n">>) -> search_start + rfind(search_window, <<"\n">>) + 1
          [] has(<<".", " ">>) -> search_start + rfind(search_window, <<".", " ">>) + 2
          [] has(<<"!", " ">>) -> search_start + rfind(search_window, <<"!", " ">>) + 2
          [] has(<<"?", " ">>) -> search_start + rfind(search_window, <<"?", " ">>) + 2
          [] has(<<" ">>) -> search_start + rfind(search_window, <<" ">>) + 1
          [] OTHER -> end

\* chunk_text("Paragraph one.\n\nParagraph two.", max_chars=20, overlap_chars=5)
ScenarioA ==
    [text |-> <<"P", "a", "r", "a", "g", "r", "a", "p", "h", " ", "o", "n", "e", ".",
                "\n", "\n",
                "P", "a", "r", "a", "g", "r", "a", "p", "h", " ", "t", "w", "o", ".">>,
     max_chars |-> 20, overlap_chars |-> 5]

\* the texts of at most n characters
TextsUpTo(n) == UNION {[1..k -> Chars] : k \in 0..n}

\* a call chunk_text(text, max_chars, overlap_chars) is about to run
ChunkInit ==
    /\ clock = 0
    /\ dirExists = FALSE
    /\ files = [n \in DocNames |-> Absent]
    /\ cacheFile = Absent
    /\ tmpFile = Absent
    /\ model = FreshModel
    /\ cache = EmptyDict
    /\ chunks = <<>>
    /\ embeddings = None
    /\ chunk_metadata = <<>>
    /\ loaded = FALSE
    /\ lastResult = NoResult
    /\ lastLoad = NoLoad
    /\ everInitFailed = FALSE
    /\ lastSet = [n \in DocNames |-> None]
    /\ faults = 0
    /\ lastRetrieve = NoRetrieve
    /\ messages = <<>>
    /\ pp = NoPrompt
    /\ \E call \in {ScenarioA} \cup
                    [text : TextsUpTo(MaxTextLen), max_chars : 1..MaxChars,
                     overlap_chars : 0..MaxOverlap] :
          ct = [pc |-> "call", text |-> call.text, max_chars |-> call.max_chars,
                overlap_chars |-> call.overlap_chars, start |-> 0, chunks |-> <<>>,
                windows |-> <<>>]
    /\ turn = NoTurn

notChunkVars == <<clock, dirExists, files, cacheFile, tmpFile, model, cache, chunks,
                  embeddings, chunk_metadata, loaded, lastResult, lastLoad,
                  everInitFailed, lastSet, faults, lastRetrieve, messages, pp, turn>>

\* "if not text or not text.strip(): return []", else the loop is entered
ChunkEnter ==
    /\ ct.pc = "call"
    /\ ct' = [ct EXCEPT !.pc = IF ct.text = <<>> \/ text_strip(ct.text) = <<>>
                               THEN "done" ELSE "loop"]
    /\ UNCHANGED notChunkVars

\* one pass of "while start < text_len".  "done": chunk_text has returned
\* ct.chunks; "IndexError": chunks[-1] was evaluated on an empty list.
\* windows lists, per pass, the slice text[from:to] the pass took its chunk
\* from.
ChunkStep ==
    LET text_len == Len(ct.text)
        end == ct.start + ct.max_chars
        break_point == find_break_point(ct.text, ct.start, end, ct.overlap_chars)
        last == text_strip(Slice(ct.text, ct.start, text_len))
        chunk == text_strip(Slice(ct.text, ct.start, break_point))
        chunks1 == IF chunk # <<>> THEN Append(ct.chunks, chunk) ELSE ct.chunks
        start1 == break_point - ct.overlap_chars
        start2 == IF start1 <= find(chunks1[Len(chunks1)], chunk) THEN break_point ELSE start1
    IN  /\ ct.pc = "loop"
        /\ Len(ct.windows) < MaxPasses
        /\ ct' = IF ct.start >= text_len THEN [ct EXCEPT !.pc = "done"]
                 ELSE IF end >= text_len
                 THEN [ct EXCEPT !.pc = "done",
                                 !.chunks = IF last # <<>> THEN Append(@, last) ELSE @,
                                 !.windows = Append(@, [from |-> ct.start, to |-> text_len])]
                 ELSE IF chunks1 = <<>>
                 THEN [ct EXCEPT !.pc = "IndexError",
                                 !.windows = Append(@, [from |-> ct.start, to |-> break_point])]
                 ELSE [ct EXCEPT !.chunks = chunks1, !.start = start2,
                                 !.windows = Append(@, [from |-> ct.start, to |-> break_point])]
        /\ UNCHANGED notChunkVars

ChunkNext ==
    \/ ChunkEnter
    \/ ChunkStep

ChunkSpec == ChunkInit /\ [][ChunkNext]_vars

----------------------------------------------------------------------------
(* Observations shared by the properties *)

\* a load() call has just ended without the process dying
JustLoaded == lastResult.value \in {"True", "False", "CacheError"}

\* every way retrieve() can be called on the instance
RetrieveCalls == Queries \X BOOLEAN \X Budgets \X TopKs

RetrieveNow(call) ==
    retrieve(chunks, embeddings, loaded, model, call[1], call[2], call[3], call[4])

\* chunks and document names of a reference index
RefChunks(ref) == [i \in 1..Len(ref) |-> ref[i].chunk]
RefFiles(ref) == {ref[i].filename : i \in 1..Len(ref)}

RECURSIVE SumTokens(_)
SumTokens(chs) == IF chs = <<>> THEN 0 ELSE TokenCount(Head(chs)) + SumTokens(Tail(chs))

DamagedKinds == {"garbage", "truncated", "notdict", "unreadable"}

\* the retrieve() call just made: its candidates in rank order, the chunks
\* it returned, and the scores it ranked by
Candidates == top_slice(lastRetrieve.sorted, lastRetrieve.top_k)
Picked == lastRetrieve.result.picked
PickedChunks == [i \in 1..Len(Picked) |-> chunks[Picked[i]]]
Ranked == lastRetrieve.called /\ loaded /\ lastRetrieve.fault = "none"
Scores == Similarities(embeddings, lastRetrieve.query)

\* the score of a text itself against a query
TrueScore(query, text) ==
    [dot |-> Dot(encode_single(query), EmbedVec(text)),
     n2 |-> Dot(EmbedVec(text), EmbedVec(text))]

\* x precedes y in the stable descending sort of sims
StablyBefore(sims, x, y) ==
    CosLess(sims[y], sims[x]) \/ (~CosLess(sims[x], sims[y]) /\ x < y)

\* the indices of sims in stable descending order
StableDescending(sims) ==
    LET n == Len(sims)
        rank(i) == 1 + Cardinality({j \in 1..n : j # i /\ StablyBefore(sims, j, i)})
    IN  [r \in 1..n |-> CHOOSE i \in 1..n : rank(i) = r]

Min(a, b) == IF a < b THEN a ELSE b

\* a prepare_prompt() call is in progress or has just returned
InPrompt == pp.pc \in {"loop", "returned"}

\* the messages that are to be pinned in the call: the system prompt when
\* one is configured as message 0, then the retrieval block when one was
\* injected
PinnedSet ==
    (IF messages # <<>> /\ messages[1].role = "system" THEN <<messages[1]>> ELSE <<>>)
        \o (IF Truthy(pp.rag_context) /\ Truthy(strip(pp.rag_context))
            THEN <<RagBlock(pp.rag_context)>> ELSE <<>>)

----------------------------------------------------------------------------
(* C1..C10 *)

\* C1: after a load() that populated the index, chunks, embeddings and
\* chunk_metadata have equal length, row i of embeddings is the embedding of
\* chunks[i], and chunk_metadata[i] names the document chunks[i] came from,
\* for every mix of hits and misses and every listing order.
C1_ParallelCollections ==
    (JustLoaded /\ lastResult.at = "end") =>
        /\ Len(embeddings.rows) = Len(chunks)
        /\ Len(chunk_metadata) = Len(chunks)
        /\ Len(lastLoad.ref) = Len(chunks)
        /\ \A i \in 1..Len(chunks) :
              /\ embeddings.rows[i] = EmbedVec(chunks[i])
              /\ chunks[i] = lastLoad.ref[i].chunk
              /\ chunk_metadata[i].filename = lastLoad.ref[i].filename

\* C2: get(filename) is a hit exactly when an entry for filename exists and
\* its timestamp equals the file's current modification time (no entry, a
\* different timestamp or an unreadable mtime is a miss), and a hit carries
\* exactly the chunks and embeddings given to the last set(filename, ...).
C2_GetHitIffTimestampMatches ==
    \A n \in DocNames :
        LET r == get(cache, files, n)
        IN  /\ (r # None) <=>
                  (/\ n \in DOMAIN cache
                   /\ MtimeReadable(files, n)
                   /\ cache[n].timestamp = files[n].mtime)
            /\ (r # None) =>
                  /\ lastSet[n] # None
                  /\ r.chunks = lastSet[n].chunks
                  /\ r.embeddings = lastSet[n].embeddings

\* C2 witness: a two-chunk document whose entry was stored by set() is
\* served from that entry by get() at the unchanged modification time.
C2_Witness ==
    \E n \in DocNames :
        /\ get(cache, files, n) # None
        /\ lastSet[n] # None
        /\ Len(get(cache, files, n).chunks) = 2

\* C3: after a crash at any step of save(), a load() of the directory
\* yields the complete previously saved cache or the complete new one,
\* never a partial or missing one.
C3_CrashKeepsSavedCache ==
    (lastResult.value = "crash" /\ lastLoad.before.kind = "pickle") =>
        /\ cacheFile.kind = "pickle"
        /\ cache_load(EmptyDict, cacheFile).result = "True"
        /\ cache_load(EmptyDict, cacheFile).cache \in {lastLoad.before.obj, lastLoad.data}

\* C4: after a successful save(), load() on a new EmbeddingsCache instance
\* gives, for every document, the get() result of the saving instance.
C4_SaveLoadRoundTrip ==
    (JustLoaded /\ lastResult.save = "True") =>
        LET fresh == cache_load(EmptyDict, cacheFile)
        IN  /\ fresh.result = "True"
            /\ \A n \in DocNames : get(fresh.cache, files, n) = get(cache, files, n)

\* C4 witness: a save succeeded and the reloaded cache serves a document
\* with two chunks.
C4_Witness ==
    /\ JustLoaded
    /\ lastResult.save = "True"
    /\ \E n \in DocNames :
          LET r == get(cache_load(EmptyDict, cacheFile).cache, files, n)
          IN  r # None /\ Len(r.chunks) = 2 /\ r.embeddings.rows = <<EmbedVec("Q1"), EmbedVec("Q2")>>

\* C5: with a corrupted cache file RAGManager.load() does not raise: it
\* returns a boolean and indexes the documents.
C5_CorruptCacheNeverAborts ==
    (JustLoaded /\ lastResult.at # "model" /\ lastLoad.before.kind \in DamagedKinds) =>
        /\ lastResult.value \in {"True", "False"}
        /\ lastResult.value = "True" => chunks = RefChunks(lastLoad.ref)

\* C6: a cache save failure at the end of load() does not block the index
\* built in that run: load() returns True, is_loaded() is true and
\* retrieve() serves the new index.
C6_SaveFailureKeepsIndex ==
    (JustLoaded /\ lastResult.at = "end" /\ lastResult.save = "CacheError") =>
        /\ lastResult.value = "True"
        /\ is_loaded(loaded)
        /\ chunks = RefChunks(lastLoad.ref)
        /\ RetrieveNow(<<"p?", TRUE, 100, 10>>)[2] = SumTokens(chunks)

C8_LoadRebuildsIndex ==
    (JustLoaded /\ lastResult.value = "True") =>
        /\ chunks = RefChunks(lastLoad.ref)
        /\ get_stats(chunks, chunk_metadata, loaded).num_chunks = Len(lastLoad.ref)
        /\ is_loaded(loaded) <=> lastLoad.ref # <<>>
        /\ is_loaded(loaded) =>
              get_stats(chunks, chunk_metadata, loaded).files = RefFiles(lastLoad.ref)

\* C9: after load() completes on a fresh instance the instance is Loaded
\* (True, is_loaded, >= 1 chunk), Empty (True, not loaded, no chunk) or
\* LoadFailed (False, no chunk); and is_loaded() implies >= 1 chunk always.
C9_ThreeOutcomes ==
    /\ (JustLoaded /\ lastLoad.fresh) =>
          \/ lastResult.value = "True" /\ is_loaded(loaded) /\ Len(chunks) >= 1
          \/ lastResult.value = "True" /\ ~is_loaded(loaded) /\ Len(chunks) = 0
          \/ lastResult.value = "False" /\ ~is_loaded(loaded) /\ Len(chunks) = 0
    /\ is_loaded(loaded) => Len(chunks) >= 1

----------------------------------------------------------------------------
(* C11..C20 *)

\* C11: a document that cannot be decoded is skipped by load(): the
\* index holds no chunk and no metadata of it, the cache holds no entry
\* serving it, every other eligible document is indexed, and load() returns
\* True.
C11_UnreadableDocSkipped ==
    \A n \in DocNames :
        (/\ JustLoaded
         /\ lastResult.at \in {"empty", "end"}
         /\ lastResult.save # "CacheError"
         /\ files[n].kind = "file"
         /\ ~Readable(files[n].text)) =>
            /\ lastResult.value = "True"
            /\ \A i \in 1..Len(chunk_metadata) : chunk_metadata[i].filename # n
            /\ get(cache, files, n) = None
            /\ chunks = RefChunks(lastLoad.ref)

\* C12: the token count retrieve() reports is the sum of the measured
\* counts of the chunks it returns, and it never exceeds the budget.
C12_BudgetRespected ==
    lastRetrieve.called =>
        /\ lastRetrieve.result.total_tokens <= lastRetrieve.max_tokens
        /\ lastRetrieve.result.total_tokens = SumTokens(PickedChunks)
        /\ lastRetrieve.result.context = join(PickedChunks)

\* C12 witness: a candidate was passed over below 80% of the budget, a
\* lower-ranked one was accepted after it, and the budget is used up.
C12_Witness ==
    /\ Ranked
    /\ lastRetrieve.result.total_tokens = lastRetrieve.max_tokens
    /\ \E a, b \in 1..Len(Candidates) :
          /\ a < b
          /\ \A i \in 1..Len(Picked) : Picked[i] # Candidates[a]
          /\ \E i \in 1..Len(Picked) : Picked[i] = Candidates[b]

\* C13: the chunks retrieve() returns are in descending order of the
\* cosine similarity of their own text to the query, joined by blank lines.
C13_RankedByTrueSimilarity ==
    (loaded /\ embeddings # None /\ model = "loaded") =>
        \A query \in Queries, max_tokens \in Budgets, top_k \in TopKs :
            \A sorted \in ArgSorts(Similarities(embeddings, query)) :
                LET r == retrieve_sorted(chunks, embeddings, loaded, model, query,
                                         TRUE, TRUE, max_tokens, top_k, sorted)
                    out == [i \in 1..Len(r.picked) |-> chunks[r.picked[i]]]
                IN  /\ r.context = join(out)
                    /\ \A i \in 1..(Len(out) - 1) :
                          ~CosLess(TrueScore(query, out[i]), TrueScore(query, out[i + 1]))

\* C14: the candidates of retrieve() are the first top_k indices of the
\* stable descending sort of the scores: equal scores in index order.
C14_StableDescendingSort ==
    (Ranked /\ lastRetrieve.top_k >= 1) =>
        Candidates = SubSeq(StableDescending(Scores), 1,
                            Min(lastRetrieve.top_k, Len(chunks)))

\* C15: retrieve() returns at most top_k chunks, each among the top_k
\* highest-scoring ones; over the Scenario C index with top_k = 2 and ample
\* budget it returns the first and the fourth chunk, in that order.
C15_AtMostTopK ==
    Ranked =>
        /\ Len(Picked) <= lastRetrieve.top_k
        /\ \A i \in 1..Len(Picked) :
              Cardinality({j \in 1..Len(chunks) : CosLess(Scores[Picked[i]], Scores[j])})
                  < lastRetrieve.top_k
        /\ (/\ chunks = ScenarioC.chunks
            /\ lastRetrieve.query = "p?"
            /\ lastRetrieve.top_k = 2
            /\ lastRetrieve.max_tokens = 100) => Picked = <<1, 4>>

\* C16: retrieve() returns a (context, tokens) pair on every call, and the
\* pair is ("", 0) on an unloaded or empty index, when the embedding or the
\* token-counting collaborator fails, and when no chunk is accepted.
C16_NeverRaises ==
    lastRetrieve.called =>
        /\ lastRetrieve.result.total_tokens >= 0
        /\ lastRetrieve.result.context # "raised"
        /\ (\/ ~loaded
            \/ chunks = <<>>
            \/ lastRetrieve.fault # "none"
            \/ Picked = <<>>) =>
              /\ lastRetrieve.result.context = ""
              /\ lastRetrieve.result.total_tokens = 0

\* C16 witness: the token counter fails on a loaded index whose candidates
\* would fit the budget.
C16_Witness ==
    /\ lastRetrieve.called
    /\ loaded
    /\ Len(chunks) >= 2
    /\ lastRetrieve.fault = "tokenizer"
    /\ lastRetrieve.max_tokens = 100
    /\ lastRetrieve.result.context = ""
    /\ lastRetrieve.result.total_tokens = 0

\* C17: a prompt prepare_prompt returns from the chat template was
\* measured and is at most max_length tokens long; any other prompt it
\* returns is the manual fallback.
C17_FitsOrManualFallback ==
    pp.pc = "returned" =>
        \/ pp.result.by = "manual"
        \/ pp.verified /\ Measure(pp.result) <= pp.max_length

C19_PinnedSetExact ==
    InPrompt =>
        LET conv == Conversation(messages) IN
        /\ Len(pp.popped) <= Len(conv)
        /\ pp.popped = SubSeq(conv, 1, Len(pp.popped))
        /\ pp.pruned_messages = PinnedSet \o SubSeq(conv, Len(pp.popped) + 1, Len(conv))
        /\ (pp.pc = "loop" /\ Len(pp.popped) < Len(conv)) =>
              Len(pp.pruned_messages) > pp.num_preserved

\* C20: in a call of chunk_text every pass of the loop that goes on to
\* another pass starts the next window strictly after the start of this
\* one.
C20_StartAdvances ==
    [][(ct.pc = "loop" /\ ct'.pc = "loop") => ct'.start > ct.start]_vars

----------------------------------------------------------------------------
(* C21..C30 *)

\* the character at position p of the text, counted from 0, is not whitespace
NonWs(p) == ct.text[p + 1] \notin Whitespace

HasText(w) == \E p \in w.from..(w.to - 1) : NonWs(p)

\* the windows of the passes that appended a chunk
Kept == SelectSeq(ct.windows, HasText)

\* the part text[from:to] of a window that is left when the whitespace at
\* its two ends is taken away
SpanOf(w) ==
    [from |-> Least({p \in w.from..(w.to - 1) : NonWs(p)}),
     to |-> Greatest({p \in w.from..(w.to - 1) : NonWs(p)}) + 1]

InSpan(p, w) == SpanOf(w).from <= p /\ p < SpanOf(w).to

Positions == 0..(Len(ct.text) - 1)

\* C21 as stated: every character of the text lies within a returned chunk
\* and no two consecutive chunks leave a gap between them.
C21_EveryCharacterCovered ==
    ct.pc = "done" =>
        /\ \A p \in Positions : \E k \in 1..Len(Kept) : InSpan(p, Kept[k])
        /\ \A k \in 1..(Len(Kept) - 1) : SpanOf(Kept[k + 1]).from <= SpanOf(Kept[k]).to

\* C21: when chunk_text returns, the passes took consecutive windows
\* text[from:to] that start at 0, end at the end of the text and overlap or
\* abut; each chunk is its window without the whitespace at the two ends of
\* the window, a window of whitespace only gives no chunk, and so every
\* character that is not whitespace lies within a chunk.
C21_NonWhitespaceCovered ==
    ct.pc = "done" =>
        /\ Len(ct.chunks) = Len(Kept)
        /\ \A k \in 1..Len(Kept) :
              ct.chunks[k] = Slice(ct.text, SpanOf(Kept[k]).from, SpanOf(Kept[k]).to)
        /\ \A p \in Positions : NonWs(p) => \E k \in 1..Len(Kept) : InSpan(p, Kept[k])
        /\ ct.windows # <<>> =>
              /\ ct.windows[1].from = 0
              /\ ct.windows[Len(ct.windows)].to = Len(ct.text)
        /\ \A k \in 1..(Len(ct.windows) - 1) : ct.windows[k + 1].from <= ct.windows[k].to

\* C21 witness: a call returned two chunks or more and a whitespace
\* character between two of them is in no chunk.
C21_Witness ==
    /\ ct.pc = "done"
    /\ Len(ct.chunks) >= 2
    /\ \E p \in Positions : ~NonWs(p) /\ \A k \in 1..Len(Kept) : ~InSpan(p, Kept[k])

\* C22: chunk_text raises nothing, whatever the text and the parameters.
C22_NeverRaises == ct.pc # "IndexError"

\* C23: chunk_text("Paragraph one.\n\nParagraph two.", 20, 5) returns two
\* chunks, the first window ends at position 16, right after the blank line,
\* and the first chunk is "Paragraph one.".
C23_ScenarioA ==
    (/\ ct.pc = "done"
     /\ ct.text = ScenarioA.text
     /\ ct.max_chars = ScenarioA.max_chars
     /\ ct.overlap_chars = ScenarioA.overlap_chars) =>
        /\ Len(ct.chunks) = 2
        /\ ct.windows[1] = [from |-> 0, to |-> 16]
        /\ ct.chunks[1] = SubSeq(ScenarioA.text, 1, 14)
        /\ ct.chunks[2] = SubSeq(ScenarioA.text, 12, 30)

\* C23 witness: the call of scenario A has returned.
C23_Witness ==
    /\ ct.pc = "done"
    /\ ct.text = ScenarioA.text
    /\ ct.max_chars = ScenarioA.max_chars
    /\ ct.overlap_chars = ScenarioA.overlap_chars
    /\ ct.chunks # <<>>

\* the names load() puts in existing_files
ExistingFiles ==
    {n \in DocNames : /\ isfile(files, n)
                      /\ n \notin EXCLUDED_FILES
                      /\ splitext_lower(n) \in SUPPORTED_EXTENSIONS}

\* a load() of an existing directory has just returned True
LoadedTrue ==
    /\ JustLoaded
    /\ lastResult.value = "True"
    /\ lastResult.at \in {"empty", "no_embeddings", "end"}

\* C24 as stated: after every load() of an existing directory that returns
\* True, neither the cache in memory nor the cache file holds an entry of a
\* document that is no longer in the directory.
C24_NoStaleEntryAnywhere ==
    LoadedTrue =>
        /\ DOMAIN cache \subseteq ExistingFiles
        /\ cacheFile.kind = "pickle" => DOMAIN cacheFile.obj \subseteq ExistingFiles

\* C24: a load() of an existing directory that returns True leaves in the
\* cache in memory exactly the entries of the documents of the directory:
\* those it stored in this call and, unchanged, those it read from the cache
\* file; when its save succeeded the cache file holds that same mapping.
C24_CleanRemovesExactlyStale ==
    [][(lastResult'.value = "True"
          /\ lastResult'.at \in {"empty", "no_embeddings", "end"}) =>
          LET read == cache_load(cache, cacheFile).cache
              kept == (DOMAIN read) \cap ExistingFiles
          IN  /\ DOMAIN cache' = kept \cup lastLoad'.stored
              /\ lastLoad'.stored \subseteq ExistingFiles
              /\ \A n \in kept \ lastLoad'.stored : cache'[n] = read[n]
              /\ \A n \in lastLoad'.stored :
                    /\ cache'[n].timestamp = files[n].mtime
                    /\ cache'[n].chunks = lastSet'[n].chunks
              /\ lastResult'.save = "True" =>
                    (cacheFile'.kind = "pickle" /\ cacheFile'.obj = cache')]_vars

\* C24 witness: a load() that returned True and saved has dropped the entry
\* of a deleted document and kept the entry of another document.
C24_Witness ==
    /\ LoadedTrue
    /\ lastResult.save = "True"
    /\ cache # EmptyDict
    /\ lastLoad.cached \ ExistingFiles # {}
    /\ DOMAIN cache \ lastLoad.stored # {}

\* C25: in a chat turn where the session has no RAG manager, the manager
\* is not loaded or retrieve() raises, get_rag_context returns "" and no
\* exception leaves it: the turn goes on to prepare_prompt with the
\* conversation as it is, no retrieval block added.
C25_RetrievalDegradesSilently ==
    (turn.pc \in {"prompt", "raised"}
        /\ turn.why \in {"no_manager", "not_loaded", "retrieve_raised"}) =>
        /\ turn.pc = "prompt"
        /\ turn.rag_context = ""
        /\ pp.pc \in {"loop", "returned"}
        /\ pp.rag_context = ""
        /\ pp.messages_to_format = messages
        /\ pp.max_length = turn.available_context

\* C25 witness: retrieve() raised on a loaded manager and prepare_prompt
\* has returned a prompt for the turn.
C25_Witness ==
    /\ turn.pc = "prompt"
    /\ turn.why = "retrieve_raised"
    /\ pp.pc = "returned"

\* the reference walk with budget B over the first i candidates: the running
\* total T, the candidates accepted, and whether the walk has stopped.  A
\* candidate of cost c is accepted iff T + c <= B; one that does not fit is
\* passed over while T < 80% of B, and stops the walk otherwise.
RECURSIVE Greedy(_, _)
Greedy(i, B) ==
    IF i = 0 THEN [T |-> 0, accepted |-> <<>>, stopped |-> FALSE]
    ELSE LET g == Greedy(i - 1, B)
             c == TokenCount(chunks[Candidates[i]])
         IN  IF g.stopped THEN g
             ELSE IF g.T + c <= B
             THEN [T |-> g.T + c, accepted |-> Append(g.accepted, Candidates[i]),
                   stopped |-> FALSE]
             ELSE IF 10 * g.T < 8 * B THEN g
             ELSE [g EXCEPT !.stopped = TRUE]

\* C26: retrieve() returns what the reference greedy walk over its
\* candidates, taken in descending similarity, accepts: the same chunks in
\* the same order, and tokens_used is the sum of their costs.
C26_EqualsGreedyWalk ==
    Ranked =>
        LET g == Greedy(Len(Candidates), lastRetrieve.max_tokens) IN
        /\ \A i \in 1..(Len(Candidates) - 1) :
              ~CosLess(Scores[Candidates[i]], Scores[Candidates[i + 1]])
        /\ Picked = g.accepted
        /\ lastRetrieve.result.total_tokens = g.T
        /\ lastRetrieve.result.total_tokens = SumTokens(PickedChunks)
        /\ lastRetrieve.result.context = join(PickedChunks)

\* C26 witness: the walk passed over a candidate below 80% of the budget,
\* accepted a later one and then stopped at a candidate that did not fit.
C26_Witness ==
    /\ Ranked
    /\ Greedy(Len(Candidates), lastRetrieve.max_tokens).stopped
    /\ \E a, b \in 1..Len(Candidates) :
          /\ a < b
          /\ \A i \in 1..Len(Picked) : Picked[i] # Candidates[a]
          /\ \E i \in 1..Len(Picked) : Picked[i] = Candidates[b]

\* C27: a cache hit never serves stale content: whenever get() answers for
\* a document, it answers with the chunks of the document as it is now and
\* the vectors of those chunks.
C27_HitNeverStale ==
    \A n \in DocNames :
        LET r == get(cache, files, n) IN
        (r # None /\ Readable(files[n].text)) =>
            /\ r.chunks = ChunksOfText(files[n].text)
            /\ r.embeddings.rows = [i \in 1..Len(r.chunks) |-> EmbedVec(r.chunks[i])]

\* the candidates of a prepare_prompt call: the pinned set followed by the
\* conversation without its j oldest messages, one message at least
PruneCandidate(j) ==
    PinnedSet \o SubSeq(Conversation(messages), j + 1, Len(Conversation(messages)))

Fits(msgs) == Measure(apply_chat_template(msgs)) <= pp.max_length

FittingDrops == {j \in 0..(Len(Conversation(messages)) - 1) : Fits(PruneCandidate(j))}

\* C28: a call of prepare_prompt in which the tokenizer never failed and
\* some candidate measures at most max_length returns the first such
\* candidate, the one that keeps the longest suffix of the conversation; a
\* candidate measuring exactly max_length counts as fitting.
C28_FirstFittingCandidate ==
    (pp.pc = "returned" /\ ~pp.raised /\ FittingDrops # {}) =>
        pp.result = apply_chat_template(PruneCandidate(Least(FittingDrops)))

\* C29: a call of prepare_prompt in which a tokenizer call failed returns
\* the manual fallback: the role-tagged pinned set and most recent message,
\* closed by the assistant tag.
C29_FailureGivesManualFallback ==
    (pp.pc = "returned" /\ pp.raised) =>
        /\ pp.result.by = "manual"
        /\ pp.result = manual_format(messages, PinnedSet, Len(PinnedSet))

\* C30: after a load() that embedded documents, the cache entry of each
\* document embedded in the call holds the chunks of that document, in
\* order, the vector the model returned for each of them, and the
\* modification time of the document, whatever the other documents were.
C30_MissEntriesOwnChunksAndVectors ==
    (JustLoaded /\ lastResult.at = "end") =>
        \A n \in lastLoad.stored :
            /\ n \in DOMAIN cache
            /\ cache[n].timestamp = files[n].mtime
            /\ cache[n].chunks = ChunksOfText(files[n].text)
            /\ cache[n].embeddings =
                  [i \in 1..Len(cache[n].chunks) |-> EmbedVec(cache[n].chunks[i])]

\* C30 witness: a load() served one document from the cache, listed first,
\* and embedded another document of two chunks.
C30_Witness ==
    /\ JustLoaded
    /\ lastResult.at = "end"
    /\ \E n \in lastLoad.stored, m \in DOMAIN cache \ lastLoad.stored :
          /\ Len(cache[n].chunks) = 2
          /\ chunk_metadata[1].filename = m

----------------------------------------------------------------------------
(* C31..C40 *)

\* a step is a load() that got as far as scanning the directory
ScannedStep == lastResult'.at \in {"empty", "encode", "no_embeddings", "end"}

\* the documents a load() starting now finds no valid cache entry for
MissDocs ==
    {n \in DocNames : /\ Indexable(files, n)
                      /\ get(cache_load(cache, cacheFile).cache, files, n) = None}

\* C31: a load() calls encode at most once, on the chunks of all the
\* documents it found no valid cache entry for, in the order of the scan,
\* and does not call it when there is no such chunk.
C31_OneBatchedEncode ==
    [][ScannedStep =>
          LET ref == lastLoad'.ref
              expected == SelectSeq(ref, LAMBDA e : e.filename \in MissDocs)
              wanted == [i \in 1..Len(expected) |-> expected[i].chunk]
          IN  /\ Len(lastLoad'.encoded) <= 1
              /\ lastLoad'.encoded = IF wanted = <<>> THEN <<>> ELSE <<wanted>>]_vars

\* C31 witness: a load() embedded the two chunks of a document in one call
\* beside a document served from the cache.
C31_Witness ==
    /\ JustLoaded
    /\ Len(lastLoad.encoded) = 1
    /\ Len(lastLoad.encoded[1]) >= 2
    /\ Len(chunks) > Len(lastLoad.encoded[1])

\* the entries of the directory that are regular files with an allowed
\* extension and a name that is not excluded
Eligible ==
    {n \in DOMAIN files : /\ files[n].kind = "file"
                          /\ n \in {"a.md", "b.md"}}

\* C32: after a load() that went through the directory only the regular
\* files with an allowed extension and a name not excluded have chunks in
\* the index and an entry in the cache; the index built holds the chunks of
\* all of them; and without a fault load() returns True, whatever else the
\* directory holds.
C32_OnlyEligibleFilesIndexed ==
    (JustLoaded /\ lastResult.at \in {"empty", "end"}) =>
        /\ DOMAIN cache \subseteq Eligible
        /\ \A i \in 1..Len(chunk_metadata) : chunk_metadata[i].filename \in Eligible
        /\ lastResult.at = "end" =>
              /\ {chunk_metadata[i].filename : i \in 1..Len(chunk_metadata)} = Eligible
              /\ chunks = RefChunks(lastLoad.ref)
        /\ faults = 0 => lastResult.value = "True"

\* C32 witness: load() indexed a.md beside a directory named b.md that has
\* an entry in the cache file, a README.md and the cache file.
C32_Witness ==
    /\ DOMAIN files = DirNames
    /\ JustLoaded
    /\ lastResult.at = "end"
    /\ lastLoad.cached = {"b.md"}
    /\ files["b.md"] = Directory
    /\ files["README.md"].kind = "file"
    /\ files[CacheFileName].kind = "file"
    /\ chunks # <<>>

\* the message lists a prepare_prompt call has formatted or is to format
FormattedLists ==
    {pp.messages_to_format, pp.pruned_messages}
        \cup (IF pp.pc = "returned" THEN {pp.result.messages} ELSE {})

\* a retrieval context that is neither None nor empty nor blank was supplied
ContextSupplied == pp.rag_context \notin {"None", "", " "}

\* the retrieval-context message: the context between the fixed header and
\* footer
ContextMessage ==
    [role |-> "system",
     content |-> "# Knowledge Base Context\n\n" \o pp.rag_context \o
                 "\n\n---\n\nUse the above context to help answer questions when relevant."]

IsContextMessage(m) ==
    \E c \in RagContexts \ {"None"} :
        m = [role |-> "system",
             content |-> "# Knowledge Base Context\n\n" \o c \o
                 "\n\n---\n\nUse the above context to help answer questions when relevant."]

SystemPrompt == IF messages # <<>> /\ messages[1].role = "system" THEN <<messages[1]>> ELSE <<>>

\* C33: the list prepare_prompt builds is the system prompt if there is
\* one, then the retrieval-context message iff a non-blank context was
\* supplied, then the conversation in order; and every list it formats holds
\* that message exactly once, right after the system prompt, when a context
\* was supplied, and not at all otherwise.
C33_ContextMessageIffSupplied ==
    InPrompt =>
        /\ pp.messages_to_format =
              SystemPrompt \o (IF ContextSupplied THEN <<ContextMessage>> ELSE <<>>)
                  \o Conversation(messages)
        /\ \A L \in FormattedLists :
              /\ Cardinality({i \in 1..Len(L) : IsContextMessage(L[i])})
                    = IF ContextSupplied THEN 1 ELSE 0
              /\ ContextSupplied => L[Len(SystemPrompt) + 1] = ContextMessage

\* C33 witness: a call with a context, a system prompt and a conversation
\* has pruned a message and returned.
C33_Witness ==
    /\ pp.pc = "returned"
    /\ ContextSupplied
    /\ SystemPrompt # <<>>
    /\ pp.popped # <<>>
    /\ Len(pp.result.messages) >= 3

----------------------------------------------------------------------------
\* the passes of the loop whose window ended before the end of the text:
\* the cut of such a pass came from _find_break_point
Interior == {k \in 1..Len(ct.windows) : ct.windows[k].from + ct.max_chars < Len(ct.text)}

\* the target boundary of pass k
Target(k) == ct.windows[k].from + ct.max_chars

Abs(x) == IF x < 0 THEN 0 - x ELSE x

\* the part of the text within overlap_chars characters of the target of
\* pass k on either side, from the start of the window to the end of the text
RegionLo(k) ==
    IF ct.windows[k].from > Target(k) - ct.overlap_chars
    THEN ct.windows[k].from ELSE Target(k) - ct.overlap_chars
RegionHi(k) ==
    IF Len(ct.text) < Target(k) + ct.overlap_chars
    THEN Len(ct.text) ELSE Target(k) + ct.overlap_chars
Region(k) == IF RegionLo(k) < RegionHi(k) THEN Slice(ct.text, RegionLo(k), RegionHi(k)) ELSE <<>>

\* the markers of a cut, most preferred first
Markers == <<<<"\n", "\n">>, <<"\n">>, <<".", " ">>, <<"!", " ">>, <<"?", " ">>, <<" ">>>>

\* the markers that occur in the region of pass k
Present(k) == {m \in 1..Len(Markers) : Occurrences(Region(k), Markers[m]) # {}}

\* C34 as stated: the cut of every interior pass lies inside a region of
\* width overlap_chars centered on the target boundary.
C34_CutWithinWidthOverlap ==
    \A k \in Interior : 2 * Abs(ct.windows[k].to - Target(k)) <= ct.overlap_chars

\* C34: the cut of every interior pass is taken from the region that
\* reaches overlap_chars characters to either side of the target boundary
\* (no further left than the start of the window, no further right than the
\* end of the text): it is just after the rightmost occurrence of the most
\* preferred marker the region holds, in the order paragraph break, line
\* break, ". ", "! ", "? ", space; and it is the target itself exactly when
\* the region holds no marker or such a cut happens to fall there.
C34_CutAfterPreferredMarker ==
    \A k \in Interior :
        IF Present(k) = {}
        THEN ct.windows[k].to = Target(k)
        ELSE LET m == Least(Present(k))
                 occ == Occurrences(Region(k), Markers[m])
             IN  /\ \E i \in occ :
                       /\ \A j \in occ : j <= i
                       /\ ct.windows[k].to = RegionLo(k) + i + Len(Markers[m])
                 /\ ct.windows[k].to > RegionLo(k)
                 /\ ct.windows[k].to <= RegionHi(k)

\* C34 witness: chunk_text returned after an interior pass whose region held
\* a line break and, further right, a space, and that cut after the line
\* break, more than half of overlap_chars away from the target.
C34_Witness ==
    /\ ct.pc = "done"
    /\ \E k \in Interior :
          /\ Present(k) = {2, 6}
          /\ rfind(Region(k), <<" ">>) > rfind(Region(k), <<"\n">>)
          /\ ct.windows[k].to = RegionLo(k) + rfind(Region(k), <<"\n">>) + 1
          /\ 2 * Abs(ct.windows[k].to - Target(k)) > ct.overlap_chars

\* C35: every chunk that chunk_text returns has at most max_chars
\* characters.
C35_ChunkWithinMaxChars ==
    ct.pc = "done" =>
        \A i \in 1..Len(ct.chunks) : Len(ct.chunks[i]) <= ct.max_chars

----------------------------------------------------------------------------
\* C36: no step of a prepare_prompt call, the return included, changes the
\* stored message list: whatever the call returns, the list holds the same
\* messages in the same order as before and the retrieval block is not in
\* it.
C36_ConversationUnchanged ==
    [][(pp.pc # "idle" \/ pp'.pc # "idle") => messages' = messages]_vars

\* C36 witness: prepare_prompt has returned after dropping two messages
\* from its working list, and the stored list still holds them.
C36_Witness ==
    /\ pp.pc = "returned"
    /\ Len(pp.popped) >= 2
    /\ Len(pp.result.messages) < Len(messages)
    /\ \A i \in 1..Len(pp.popped) : \E j \in 1..Len(messages) : messages[j] = pp.popped[i]
    /\ \A j \in 1..Len(messages) : ~IsContextMessage(messages[j])

----------------------------------------------------------------------------
\* the stored messages, each marked with its place in the stored list
Marked(msgs) ==
    [i \in 1..Len(msgs) |-> [role |-> msgs[i].role, content |-> msgs[i].content, at |-> i]]

Unmarked(msgs) == [i \in 1..Len(msgs) |-> [role |-> msgs[i].role, content |-> msgs[i].content]]

RECURSIVE PopTimes(_, _, _)
PopTimes(list, i, n) == IF n = 0 THEN list ELSE PopTimes(pop(list, i), i, n - 1)

\* the list behind the prompt a call returned, made of the marked messages:
\* the working list after the pops for a prompt from the try on the full
\* list or from the loop, the pinned prefix and the last stored message for
\* the minimal and manual forms
MarkedResult ==
    LET marked == build_messages_with_rag(Marked(messages), pp.rag_context)
        last == IF messages # <<>> THEN <<Marked(messages)[Len(messages)]>> ELSE <<>>
    IN  IF pp.verified THEN PopTimes(marked, pp.num_preserved, Len(pp.popped))
        ELSE Slice(marked, 0, pp.num_preserved) \o last

\* the stored user and assistant messages that are in the list more than
\* once
Repeated(list) ==
    {i \in 1..Len(messages) :
        /\ messages[i].role # "system"
        /\ Cardinality({k \in 1..Len(list) : "at" \in DOMAIN list[k] /\ list[k].at = i}) > 1}

\* C37: the message list behind a returned prompt holds no user or
\* assistant message of the conversation twice.
C37_NoMessageTwice ==
    (pp.pc = "returned" /\ messages # <<>>) =>
        /\ Unmarked(MarkedResult) = pp.result.messages
        /\ Repeated(MarkedResult) = {}

\* C38: when the conversation holds a user or assistant message, the
\* message list behind a returned prompt contains the most recent message,
\* as its last entry, whatever the budget and however many messages were
\* pruned.
C38_LastMessageKept ==
    (pp.pc = "returned" /\ Conversation(messages) # <<>>) =>
        /\ Unmarked(MarkedResult) = pp.result.messages
        /\ MarkedResult # <<>>
        /\ "at" \in DOMAIN MarkedResult[Len(MarkedResult)]
        /\ MarkedResult[Len(MarkedResult)].at = Len(messages)
        /\ pp.result.messages[Len(pp.result.messages)] = messages[Len(messages)]

\* C38 witness: a prompt accepted in the loop after two messages were
\* pruned, whose list ends with a last message unlike the one before it.
C38_Witness ==
    /\ pp.pc = "returned"
    /\ pp.verified
    /\ Len(pp.popped) >= 2
    /\ Len(messages) >= 4
    /\ messages[Len(messages)] # messages[Len(messages) - 1]
    /\ pp.result.messages[Len(pp.result.messages)] = messages[Len(messages)]

----------------------------------------------------------------------------
\* C39: an atomic write that fails with an exception, in the serialisation
\* or in the final rename, leaves the destination as it was before the call
\* and leaves no temporary file.
C39_FailedWriteLeavesFiles ==
    [][lastResult'.save \in {"False", "CacheError"} =>
          /\ cacheFile' = cacheFile
          /\ tmpFile' = Absent]_vars

----------------------------------------------------------------------------
\* C40: a load() that returns False ended at the model load or at the
\* encode call, and it left chunks, embeddings, chunk_metadata and the
\* loaded flag as they were, wrote no file and stored no cache entry: after
\* a failed model load the cache is untouched, after a failed encode it is
\* the cache read from the cache file and every document that missed still
\* misses.
C40_FailedLoadKeepsIndexAndCache ==
    [][lastResult'.value = "False" =>
          /\ lastResult'.at \in {"model", "encode"}
          /\ UNCHANGED <<chunks, embeddings, chunk_metadata, loaded>>
          /\ UNCHANGED <<cacheFile, tmpFile, lastSet>>
          /\ lastLoad'.stored = {}
          /\ lastResult'.at = "model" => cache' = cache
          /\ lastResult'.at = "encode" =>
                /\ cache' = cache_load(cache, cacheFile).cache
                /\ MissDocs # {}
                /\ \A n \in MissDocs : get(cache', files', n) = None]_vars

\* C40 witness: the encode call failed in a load() on an instance whose
\* index was built before, with one document served from the cache and
\* another one that the cache does not serve.
C40_Witness ==
    /\ lastResult.value = "False"
    /\ lastResult.at = "encode"
    /\ is_loaded(loaded)
    /\ chunks # <<>>
    /\ \E n, m \in DocNames :
          /\ Indexable(files, n)
          /\ get(cache, files, n) = None
          /\ Indexable(files, m)
          /\ get(cache, files, m) # None

============================================================================
